---- MODULE Spec2Model ----
(***************************************************************************)
(* Model of caproven/mock-server: the response resolvers of internal/rest  *)
(* (static, weighted, sequenced), the endpoint binding, the HTTP handler   *)
(* registered for every endpoint, the translation of the configuration     *)
(* file by internal/config, and main.                                      *)
(*                                                                         *)
(* Go slices are 0-based; TLA+ sequences are 1-based.  Cursors and indexes *)
(* keep the Go value and At(s, i) reads element i of a Go slice.           *)
(***************************************************************************)
EXTENDS Integers, Sequences, FiniteSets, TLC

(***************************************************************************)
(* Bounds of the model.                                                    *)
(***************************************************************************)
\* longest sequence handed to NewSequencedResponse
MaxSeqLen == 3
\* number of sequential NextResponse calls in the sequenced harness
MaxCalls == 7
\* longest entry list handed to NewWeightedResponse
MaxEntries == 2
\* largest weight of an entry
MaxWeight == 3
\* how far outside [0, n) an injected number generator may answer
MaxOff == 1
\* number of NextResponse calls in the weighted harness
MaxDraws == 2
\* request-handling flows that run concurrently
NumFlows == 2
\* requests the server accepts in one run
MaxRequests == 4
\* longest option list handed to NewResponse
MaxOpts == 3
\* largest count of an entry of a configured sequence
MaxCount == 4
\* requests main serves in one run
MaxServed == 5
\* the width of int in the model, in bits
IntBits == 4

(***************************************************************************)
(* Go slices: a nil slice and an empty slice are different values with the *)
(* same length.                                                            *)
(***************************************************************************)
NilSlice == [isNil |-> TRUE, elems |-> <<>>]

Slice(s) == [isNil |-> FALSE, elems |-> s]

GoLen(s) == Len(s.elems)

At(s, i) == s[i + 1]

RECURSIVE SeqsUpTo(_, _)
SeqsUpTo(S, n) ==
  IF n = 0 THEN {<<>>}
  ELSE LET shorter == SeqsUpTo(S, n - 1)
       IN  shorter \cup {Append(s, x) : s \in {t \in shorter : Len(t) = n - 1}, x \in S}

\* every Go slice of at most n elements of S, the nil slice included
SlicesUpTo(S, n) == {NilSlice} \cup {Slice(s) : s \in SeqsUpTo(S, n)}

(***************************************************************************)
(* Response and its options.  Headers are a set of <<key, value>> pairs    *)
(* with one pair per key; a body is a string; a delay is a number of time  *)
(* units.                                                                  *)
(***************************************************************************)
StatusOK == 200

ZeroResponse == [headers |-> {}, body |-> "", statusCode |-> 0, delay |-> 0]

WithResponseHeaders(headers) == [opt |-> "headers", headers |-> headers, body |-> "", n |-> 0]

WithResponseBody(body) == [opt |-> "body", headers |-> {}, body |-> body, n |-> 0]

WithResponseStatus(statusCode) == [opt |-> "status", headers |-> {}, body |-> "", n |-> statusCode]

WithResponseDelay(delay) == [opt |-> "delay", headers |-> {}, body |-> "", n |-> delay]

\* options that take any status code and any delay
ApplyOptionUnchecked(o, r) ==
  CASE o.opt = "headers" -> [err |-> FALSE, resp |-> [r EXCEPT !.headers = o.headers]]
    [] o.opt = "body"    -> [err |-> FALSE, resp |-> [r EXCEPT !.body = o.body]]
    [] o.opt = "status"  -> [err |-> FALSE, resp |-> [r EXCEPT !.statusCode = o.n]]
    [] o.opt = "delay"   -> [err |-> FALSE, resp |-> [r EXCEPT !.delay = o.n]]

\* one option applied to the response under construction
ApplyOption(o, r) ==
  CASE o.opt = "headers" -> [err |-> FALSE, resp |-> [r EXCEPT !.headers = o.headers]]
    [] o.opt = "body"    -> [err |-> FALSE, resp |-> [r EXCEPT !.body = o.body]]
    [] o.opt = "status"  ->
         IF o.n < 100 \/ o.n > 599
         THEN [err |-> TRUE, resp |-> r]
         ELSE [err |-> FALSE, resp |-> [r EXCEPT !.statusCode = o.n]]
    [] o.opt = "delay"   ->
         IF o.n < 0
         THEN [err |-> TRUE, resp |-> r]
         ELSE [err |-> FALSE, resp |-> [r EXCEPT !.delay = o.n]]

\* the loop of NewResponse handing back, on an error, the response as far
\* as the options before the failing one have set it
RECURSIVE ApplyOptionsLeak(_, _, _)
ApplyOptionsLeak(opts, i, r) ==
  IF i > Len(opts) THEN [err |-> FALSE, resp |-> r]
  ELSE LET a == ApplyOption(opts[i], r)
       IN  IF a.err THEN [err |-> TRUE, resp |-> r]
           ELSE ApplyOptionsLeak(opts, i + 1, a.resp)

RECURSIVE ApplyOptions(_, _, _)
ApplyOptions(opts, i, r) ==
  IF i > Len(opts) THEN [err |-> FALSE, resp |-> r]
  ELSE LET a == ApplyOption(opts[i], r)
       IN  IF a.err THEN [err |-> TRUE, resp |-> ZeroResponse]
           ELSE ApplyOptions(opts, i + 1, a.resp)

NewResponse(opts) ==
  LET a == ApplyOptions(opts, 1, ZeroResponse)
  IN  IF a.err THEN a
      ELSE IF a.resp.statusCode = 0
           THEN [err |-> FALSE, resp |-> [a.resp EXCEPT !.statusCode = StatusOK]]
           ELSE a

\* the responses the configurations of the model are made of
RespA == NewResponse(<<WithResponseBody("a")>>).resp

RespB ==
  NewResponse(<<WithResponseStatus(404),
                WithResponseHeaders({<<"Content-Type", "text/plain">>}),
                WithResponseBody("b"),
                WithResponseDelay(1)>>).resp

RespC ==
  NewResponse(<<WithResponseStatus(500),
                WithResponseHeaders({<<"Retry-After", "1">>})>>).resp

(***************************************************************************)
(* Resolvers.  One record shape serves the three variants; the fields a    *)
(* variant does not have hold their zero value.  The cursor and the mutex  *)
(* of a sequenced resolver are state and live in variables.                *)
(***************************************************************************)
NilResolver ==
  [kind |-> "nil", resp |-> ZeroResponse,
   numGenerator |-> "", responses |-> <<>>, weights |-> <<>>, weightTotal |-> 0,
   endBehavior |-> "", sequence |-> NilSlice]

StaticResponse(r) == [NilResolver EXCEPT !.kind = "static", !.resp = r]

\* a NextResponse that answers a fresh Response{} instead of the stored one
StaticNextResponseZero(r) == ZeroResponse

StaticNextResponse(r) == r.resp

\* ---- weighted ----------------------------------------------------------

\* Go's int is a two's complement integer, 64 bits wide where the server is
\* built; the int of the model is IntBits wide and wraps around in the same
\* way
MaxInt == 2 ^ (IntBits - 1) - 1

\* x as an int holds it
WrapInt(x) == ((x + 2 ^ (IntBits - 1)) % 2 ^ IntBits) - 2 ^ (IntBits - 1)

WeightedResponseEntry(r, w) == [Response |-> r, Weight |-> w]

\* numberGenerator.N: the values an implementation may answer for n.
\* rng answers rand.N(n); a generator injected by the caller answers what
\* it likes, inside [0, n) or not.
N(numGenerator, n) ==
  IF numGenerator = "rng" THEN 0 .. (n - 1)
  ELSE (0 - MaxOff) .. (n - 1 + MaxOff)

\* rand.N panics when n is not positive
NPanics(numGenerator, n) == numGenerator = "rng" /\ n <= 0

\* the loop of NewWeightedResponse with the weight test off by one (< 0)
RECURSIVE WeightedBuildZeroOk(_, _, _, _, _)
WeightedBuildZeroOk(entries, i, weightTotal, responses, weights) ==
  IF i > Len(entries)
  THEN [err |-> FALSE, weightTotal |-> weightTotal, responses |-> responses, weights |-> weights]
  ELSE IF entries[i].Weight < 0
       THEN [err |-> TRUE, weightTotal |-> 0, responses |-> <<>>, weights |-> <<>>]
       ELSE WeightedBuildZeroOk(entries, i + 1, WrapInt(weightTotal + entries[i].Weight),
                                Append(responses, entries[i].Response),
                                Append(weights, WrapInt(weightTotal + entries[i].Weight)))

\* the loop of NewWeightedResponse over the entries; weightTotal +=
\* entry.Weight is an addition of ints
RECURSIVE WeightedBuild(_, _, _, _, _)
WeightedBuild(entries, i, weightTotal, responses, weights) ==
  IF i > Len(entries)
  THEN [err |-> FALSE, weightTotal |-> weightTotal, responses |-> responses, weights |-> weights]
  ELSE IF entries[i].Weight <= 0
       THEN [err |-> TRUE, weightTotal |-> 0, responses |-> <<>>, weights |-> <<>>]
       ELSE WeightedBuild(entries, i + 1, WrapInt(weightTotal + entries[i].Weight),
                          Append(responses, entries[i].Response),
                          Append(weights, WrapInt(weightTotal + entries[i].Weight)))

NewWeightedResponse(entries, numGenerator) ==
  IF GoLen(entries) = 0 THEN [err |-> TRUE, res |-> NilResolver]
  ELSE LET b == WeightedBuild(entries.elems, 1, 0, <<>>, <<>>)
       IN  IF b.err THEN [err |-> TRUE, res |-> NilResolver]
           ELSE [err |-> FALSE,
                 res |-> [NilResolver EXCEPT
                            !.kind = "weighted",
                            !.numGenerator = IF numGenerator = "" THEN "rng" ELSE numGenerator,
                            !.responses = b.responses,
                            !.weights = b.weights,
                            !.weightTotal = b.weightTotal]]

\* the scan of NextResponse with the comparison off by one (<=)
RECURSIVE WeightedScanInclusive(_, _, _)
WeightedScanInclusive(w, val, i) ==
  IF i >= Len(w.weights) THEN [panic |-> TRUE, resp |-> ZeroResponse, index |-> 0 - 1]
  ELSE IF val <= At(w.weights, i) THEN [panic |-> FALSE, resp |-> At(w.responses, i), index |-> i]
       ELSE WeightedScanInclusive(w, val, i + 1)

RECURSIVE WeightedScan(_, _, _)
WeightedScan(w, val, i) ==
  IF i >= Len(w.weights) THEN [panic |-> TRUE, resp |-> ZeroResponse, index |-> 0 - 1]
  ELSE IF val < At(w.weights, i) THEN [panic |-> FALSE, resp |-> At(w.responses, i), index |-> i]
       ELSE WeightedScan(w, val, i + 1)

\* NextResponse of a weighted resolver once the generator has answered val
WeightedNextResponse(w, val) == WeightedScan(w, val, 0)

\* ---- sequenced ---------------------------------------------------------

SequenceBehaviorLoop == "loop"

SequenceBehaviorRepeatLast == "repeatLast"

\* NewSequencedResponse without the test for an empty sequence
NewSequencedResponseAnyLen(endBehavior, sequence) ==
  IF endBehavior \notin {SequenceBehaviorLoop, SequenceBehaviorRepeatLast}
  THEN [err |-> TRUE, res |-> NilResolver, idx |-> 0]
  ELSE [err |-> FALSE,
        res |-> [NilResolver EXCEPT
                   !.kind = "sequenced",
                   !.endBehavior = endBehavior,
                   !.sequence = sequence],
        idx |-> 0]

NewSequencedResponse(endBehavior, sequence) ==
  IF endBehavior \notin {SequenceBehaviorLoop, SequenceBehaviorRepeatLast}
  THEN [err |-> TRUE, res |-> NilResolver, idx |-> 0]
  ELSE IF GoLen(sequence) = 0
       THEN [err |-> TRUE, res |-> NilResolver, idx |-> 0]
       ELSE [err |-> FALSE,
             res |-> [NilResolver EXCEPT
                        !.kind = "sequenced",
                        !.endBehavior = endBehavior,
                        !.sequence = sequence],
             idx |-> 0]

\* resp := s.sequence[s.idx]
SequencedRead(s, idx) == At(s.sequence.elems, idx)

\* a cursor that never goes back to the start, whatever the end behavior
SequencedAdvanceNoLoop(s, idx) ==
  IF idx < GoLen(s.sequence) - 1 THEN idx + 1 ELSE idx

\* a cursor that goes back to the start, whatever the end behavior
SequencedAdvanceAlwaysLoop(s, idx) ==
  IF idx < GoLen(s.sequence) - 1 THEN idx + 1
  ELSE (idx + 1) % GoLen(s.sequence)

\* a cursor that goes on past the last element under loop
SequencedAdvanceNoModulo(s, idx) ==
  IF idx < GoLen(s.sequence) - 1 THEN idx + 1
  ELSE IF idx >= GoLen(s.sequence) - 1 /\ s.endBehavior = SequenceBehaviorLoop
       THEN idx + 1
       ELSE idx

\* a cursor that also moves on from the last element
SequencedAdvanceOffByOne(s, idx) ==
  IF idx <= GoLen(s.sequence) - 1 THEN idx + 1
  ELSE IF idx >= GoLen(s.sequence) - 1 /\ s.endBehavior = SequenceBehaviorLoop
       THEN (idx + 1) % GoLen(s.sequence)
       ELSE idx

\* the cursor after one NextResponse call that found it at idx
SequencedAdvance(s, idx) ==
  IF idx < GoLen(s.sequence) - 1 THEN idx + 1
  ELSE IF idx >= GoLen(s.sequence) - 1 /\ s.endBehavior = SequenceBehaviorLoop
       THEN (idx + 1) % GoLen(s.sequence)
       ELSE idx


\* one cursor shared by all the resolvers instead of a field of each
SequencedStoreShared(idxs, e, v) == [x \in DOMAIN idxs |-> v]

\* s.idx is a field of the resolver the call is on: the write goes to the
\* cursor of resolver e among the cursors idxs of all the resolvers
SequencedStore(idxs, e, v) == [idxs EXCEPT ![e] = v]


\* ---- endpoint ----------------------------------------------------------

NewEndpoint(path, method, respResolver) ==
  [Path |-> path, Method |-> method, responseResolver |-> respResolver]

(***************************************************************************)
(* Package config: the decoded configuration file and its translation     *)
(* into endpoints.  A delay is written as a duration string; a body is a   *)
(* literal or the path of a file.                                          *)
(***************************************************************************)
\* config.Response{}: every field omitted
ZeroConfigResponse ==
  [StatusCode |-> 0, Headers |-> {}, Body |-> [Literal |-> "", FilePath |-> ""], Delay |-> ""]

\* time.ParseDuration on the duration strings of the model, in seconds: a
\* number needs a unit, except 0
ParseDuration(s) ==
  CASE s = "1s"  -> [err |-> FALSE, d |-> 1]
    [] s = "0s"  -> [err |-> FALSE, d |-> 0]
    [] s = "0"   -> [err |-> FALSE, d |-> 0]
    [] s = "-1s" -> [err |-> FALSE, d |-> 0 - 1]
    [] OTHER     -> [err |-> TRUE, d |-> 0]

\* the files os.ReadFile finds, with their content
Files == [p \in {"/body.txt", "/empty.txt"} |-> IF p = "/body.txt" THEN "f" ELSE ""]

ReadFile(path) ==
  IF path \in DOMAIN Files THEN [err |-> FALSE, data |-> Files[path]]
  ELSE [err |-> TRUE, data |-> ""]

\* toRest passing the status code on even when the file does not set it
toRestStatusAlways(r) ==
  LET headers  == IF Cardinality(r.Headers) > 0 THEN <<WithResponseHeaders(r.Headers)>> ELSE <<>>
      status   == <<WithResponseStatus(r.StatusCode)>>
      d        == ParseDuration(r.Delay)
      delay    == IF r.Delay # "" THEN <<WithResponseDelay(d.d)>> ELSE <<>>
      file     == ReadFile(r.Body.FilePath)
      respBody == IF r.Body.FilePath # "" THEN file.data ELSE r.Body.Literal
      body     == IF respBody # "" THEN <<WithResponseBody(respBody)>> ELSE <<>>
      failed   == [err |-> TRUE, resp |-> ZeroResponse]
  IN  IF r.Delay # "" /\ d.err THEN failed
      ELSE IF r.Body.Literal # "" /\ r.Body.FilePath # "" THEN failed
      ELSE IF r.Body.FilePath # "" /\ file.err THEN failed
      ELSE LET n == NewResponse(headers \o status \o delay \o body)
           IN  IF n.err THEN failed ELSE n

\* Response.toRest: the options the file sets, handed to NewResponse
toRest(r) ==
  LET headers  == IF Cardinality(r.Headers) > 0 THEN <<WithResponseHeaders(r.Headers)>> ELSE <<>>
      status   == IF r.StatusCode # 0 THEN <<WithResponseStatus(r.StatusCode)>> ELSE <<>>
      d        == ParseDuration(r.Delay)
      delay    == IF r.Delay # "" THEN <<WithResponseDelay(d.d)>> ELSE <<>>
      file     == ReadFile(r.Body.FilePath)
      respBody == IF r.Body.FilePath # "" THEN file.data ELSE r.Body.Literal
      body     == IF respBody # "" THEN <<WithResponseBody(respBody)>> ELSE <<>>
      failed   == [err |-> TRUE, resp |-> ZeroResponse]
  IN  IF r.Delay # "" /\ d.err THEN failed
      ELSE IF r.Body.Literal # "" /\ r.Body.FilePath # "" THEN failed
      ELSE IF r.Body.FilePath # "" /\ file.err THEN failed
      ELSE LET n == NewResponse(headers \o status \o delay \o body)
           IN  IF n.err THEN failed ELSE n
\* a Go pointer: nil, or pointing at a value
NilPtr == [isNil |-> TRUE]

Ptr(v) == [isNil |-> FALSE, v |-> v]

\* the loop of convertWeightedToRest over the configured entries
RECURSIVE ConvertWeightedLoop(_, _, _)
ConvertWeightedLoop(weighted, i, entries) ==
  IF i > Len(weighted) THEN [err |-> FALSE, entries |-> entries]
  ELSE LET t == toRest(weighted[i].Response)
       IN  IF t.err THEN [err |-> TRUE, entries |-> NilSlice]
           ELSE ConvertWeightedLoop(weighted, i + 1,
                  Slice(Append(entries.elems, WeightedResponseEntry(t.resp, weighted[i].Weight))))

convertWeightedToRest(weighted) ==
  LET l == ConvertWeightedLoop(weighted.elems, 1, NilSlice)
  IN  IF l.err THEN [err |-> TRUE, res |-> NilResolver]
      ELSE NewWeightedResponse(l.entries, "")

\* for range count { sequence = append(sequence, resp) }
RECURSIVE AppendTimes(_, _, _)
AppendTimes(sequence, resp, count) ==
  IF count <= 0 THEN sequence
  ELSE AppendTimes(Slice(Append(sequence.elems, resp)), resp, count - 1)

\* the loop of convertSequencedToRest appending every response once,
\* whatever its count
RECURSIVE ConvertSequencedLoopOnce(_, _, _)
ConvertSequencedLoopOnce(responses, i, sequence) ==
  IF i > Len(responses) THEN [err |-> FALSE, sequence |-> sequence]
  ELSE LET respEntry == responses[i]
           t         == toRest(respEntry.Response)
       IN  IF ~respEntry.Count.isNil /\ respEntry.Count.v <= 0
           THEN [err |-> TRUE, sequence |-> NilSlice]
           ELSE IF t.err THEN [err |-> TRUE, sequence |-> NilSlice]
           ELSE ConvertSequencedLoopOnce(responses, i + 1, AppendTimes(sequence, t.resp, 1))

\* the loop of convertSequencedToRest over the configured entries
RECURSIVE ConvertSequencedLoop(_, _, _)
ConvertSequencedLoop(responses, i, sequence) ==
  IF i > Len(responses) THEN [err |-> FALSE, sequence |-> sequence]
  ELSE LET respEntry == responses[i]
           count     == IF respEntry.Count.isNil THEN 1 ELSE respEntry.Count.v
           t         == toRest(respEntry.Response)
       IN  IF ~respEntry.Count.isNil /\ respEntry.Count.v <= 0
           THEN [err |-> TRUE, sequence |-> NilSlice]
           ELSE IF t.err THEN [err |-> TRUE, sequence |-> NilSlice]
           ELSE ConvertSequencedLoop(responses, i + 1, AppendTimes(sequence, t.resp, count))

\* the end behavior convertSequencedToRest asks for
EndBehaviorOf(sequencedResp) ==
  IF sequencedResp.EndBehavior # "" THEN sequencedResp.EndBehavior
  ELSE SequenceBehaviorRepeatLast

convertSequencedToRest(sequencedResp) ==
  LET l == ConvertSequencedLoop(sequencedResp.Responses.elems, 1, NilSlice)
  IN  IF l.err THEN [err |-> TRUE, res |-> NilResolver, idx |-> 0]
      ELSE NewSequencedResponse(EndBehaviorOf(sequencedResp), l.sequence)

\* the test that ends the loop body of RestEndpoints, with the count of
\* the strategies left out
StrategyCheckNilOnly(resolver, strategyCount) == resolver = NilResolver

\* resolver == nil || strategyCount != 1
StrategyCheck(resolver, strategyCount) == resolver = NilResolver \/ strategyCount # 1

\* the body of the loop of RestEndpoints: the endpoint of one configured
\* endpoint, or an error
RestEndpoint(endpointCfg) ==
  LET strategy == endpointCfg.ResponseStrategy
      static   == IF strategy.Static.isNil THEN [err |-> FALSE, resp |-> ZeroResponse]
                  ELSE toRest(strategy.Static.v)
      weighted == IF strategy.Weighted.isNil THEN [err |-> FALSE, res |-> NilResolver]
                  ELSE convertWeightedToRest(strategy.Weighted)
      sequence == IF strategy.Sequence.isNil THEN [err |-> FALSE, res |-> NilResolver, idx |-> 0]
                  ELSE convertSequencedToRest(strategy.Sequence.v)
      strategyCount == (IF strategy.Static.isNil THEN 0 ELSE 1)
                         + (IF strategy.Weighted.isNil THEN 0 ELSE 1)
                         + (IF strategy.Sequence.isNil THEN 0 ELSE 1)
      resolver == IF ~strategy.Sequence.isNil THEN sequence.res
                  ELSE IF ~strategy.Weighted.isNil THEN weighted.res
                  ELSE IF ~strategy.Static.isNil THEN StaticResponse(static.resp)
                  ELSE NilResolver
      failed   == [err |-> TRUE, endpoint |-> NewEndpoint("", "", NilResolver)]
  IN  IF static.err \/ weighted.err \/ sequence.err THEN failed
      ELSE IF StrategyCheck(resolver, strategyCount) THEN failed
      ELSE [err |-> FALSE,
            endpoint |-> NewEndpoint(endpointCfg.Path, endpointCfg.Method, resolver)]

\* the loop of RestEndpoints over the configured endpoints
RECURSIVE RestEndpointsLoop(_, _, _)
RestEndpointsLoop(eps, i, endpoints) ==
  IF i > Len(eps) THEN [err |-> FALSE, endpoints |-> endpoints]
  ELSE LET e == RestEndpoint(eps[i])
       IN  IF e.err THEN [err |-> TRUE, endpoints |-> NilSlice]
           ELSE RestEndpointsLoop(eps, i + 1, Slice(Append(endpoints.elems, e.endpoint)))

\* Config.RestEndpoints
RestEndpoints(c) == RestEndpointsLoop(c.Endpoints.elems, 1, NilSlice)

(***************************************************************************)
(* The HTTP side: the mux, the handler of an endpoint and the              *)
(* http.ResponseWriter it writes to.                                       *)
(***************************************************************************)
\* The pattern an endpoint is registered under: "METHOD PATH", or the bare
\* path when the method is empty.  The pair stands for the string.
Pattern(endpoint) ==
  IF endpoint.Method # "" THEN <<endpoint.Method, endpoint.Path>>
  ELSE <<"", endpoint.Path>>

\* mux.HandleFunc once per endpoint: the handlers of the mux, each closing
\* over its endpoint (named by its place in the list)
RegisterHandlers(eps) ==
  {[pattern |-> Pattern(eps[e]), endpoint |-> e] : e \in 1 .. Len(eps)}

\* two patterns the mux refuses to hold together: HandleFunc panics on the
\* second
PatternsConflict(eps) ==
  \E i, j \in 1 .. Len(eps) : i < j /\ Pattern(eps[i]) = Pattern(eps[j])

\* The handlers of the mux a request is routed to (http.ServeMux; the paths
\* of the model have no wildcard and no trailing slash): the pattern of
\* the path with the method of the request, else, for a HEAD request, the
\* one with GET, which matches HEAD too, else the one without a method.
MuxMatch(handlers, method, path) ==
  LET on    == {h \in handlers : h.pattern[2] = path}
      exact == {h \in on : h.pattern[1] = method}
      head  == {h \in on : method = "HEAD" /\ h.pattern[1] = "GET"}
      any   == {h \in on : h.pattern[1] = ""}
  IN  IF exact # {} THEN exact
      ELSE IF head # {} THEN head
      ELSE any

\* a fresh http.ResponseWriter
NewWriter ==
  [header |-> {}, wroteHeader |-> FALSE, status |-> 0, sent |-> {},
   body |-> "", wroteBody |-> FALSE, failed |-> FALSE]

\* w.Header().Set(key, val) for every pair of headers
WriterSetHeaders(wr, headers) ==
  [wr EXCEPT !.header = {h \in wr.header : \A n \in headers : n[1] # h[1]} \cup headers]

\* w.WriteHeader(code): the status line and the header map as it is now go
\* out; a second call changes nothing
WriterWriteHeader(wr, code) ==
  IF wr.wroteHeader THEN wr
  ELSE [wr EXCEPT !.wroteHeader = TRUE, !.status = code, !.sent = wr.header]

\* w.Write(body): an implicit WriteHeader(200) when none was written, then
\* the body, which the transport may fail to take
WriterWrite(wr, body, ok) ==
  LET h == WriterWriteHeader(wr, StatusOK)
  IN  IF ok THEN [h EXCEPT !.body = body, !.wroteBody = TRUE]
      ELSE [h EXCEPT !.failed = TRUE]

\* the handler with the status code written before the headers are set
HandlerNextStatusFirst(stmt, r) ==
  CASE stmt = "Response"    -> IF r.delay # 0 THEN "Sleep" ELSE "WriteHeader"
    [] stmt = "Sleep"       -> "WriteHeader"
    [] stmt = "WriteHeader" -> "SetHeaders"
    [] stmt = "SetHeaders"  -> "Write"
    [] stmt = "Write"       -> "done"

\* a handler that asks the endpoint for the response again once the delay
\* is over
HandlerNextResolveAgain(stmt, r) ==
  CASE stmt = "Response"    -> IF r.delay # 0 THEN "Sleep" ELSE "SetHeaders"
    [] stmt = "Sleep"       -> "Response"
    [] stmt = "SetHeaders"  -> "WriteHeader"
    [] stmt = "WriteHeader" -> "Write"
    [] stmt = "Write"       -> "done"

\* the statement of the handler that follows stmt, r being the response
\* endpoint.Response() returned
HandlerNext(stmt, r) ==
  CASE stmt = "Response"    -> IF r.delay # 0 THEN "Sleep" ELSE "SetHeaders"
    [] stmt = "Sleep"       -> "SetHeaders"
    [] stmt = "SetHeaders"  -> "WriteHeader"
    [] stmt = "WriteHeader" -> "Write"
    [] stmt = "Write"       -> "done"

\* a Lock that does not wait
MutexFreeAlways(holder) == TRUE

\* an Unlock that is missing
MutexUnlockMissing(holder) == holder

\* sync.Mutex: holder is the flow that holds it, 0 when it is free
MutexFree(holder) == holder = 0

MutexUnlock(holder) == 0

(***************************************************************************)
(* State.                                                                  *)
(*   the server: endpoints, their cursors and mutexes, the mux and the     *)
(*   request-handling flows                                                *)
(*   sq*: one sequenced resolver driven by a single caller                 *)
(*   wt*: one weighted resolver driven by a single caller                  *)
(***************************************************************************)
VARIABLES
  cfg,       \* what the endpoints were built from
  endpoints, \* []*Endpoint
  mux,       \* the handlers registered with the mux
  idx,       \* SequencedResponse.idx of every endpoint's resolver
  mu,        \* SequencedResponse.mu of every endpoint's resolver
  hist,      \* per endpoint, the cursor values its NextResponse calls read, in order
  handled,   \* per endpoint with a sequenced resolver, the requests its handler was called for
  pc,        \* per flow, the statement of the handler it is at
  ep,        \* per flow, the endpoint whose handler it runs
  resp,      \* per flow, what endpoint.Response() returned
  trace,     \* per flow, the statements of the handler executed for the request
  w,         \* per flow, the http.ResponseWriter of the request
  cancelled, \* per flow, whether the context of the request is cancelled
  sqIn,      \* arguments of NewSequencedResponse
  sqPc,      \* "new" before construction, then "built" or "failed"
  sqRes,     \* what NewSequencedResponse returned
  sqIdx,     \* SequencedResponse.idx
  sqOut,     \* the responses NextResponse returned, in call order
  wtIn,      \* arguments of NewWeightedResponse
  wtPc,      \* "new" before construction, then "built" or "failed"
  wtRes,     \* what NewWeightedResponse returned
  wtOut,     \* the outcomes of the NextResponse calls, in call order
  rsIn,      \* the options handed to NewResponse, or the configured response
  rsPc,      \* "new" before construction, then "done"
  rsOut,     \* the Response and the error that came back
  mnCfg,     \* main: the decoded configuration file
  mnPc,      \* main: the statement main is at
  mnRes,     \* main: what cfg.RestEndpoints() returned
  mnMux,     \* main: the handlers registered with the mux
  mnIdx,     \* main: SequencedResponse.idx of every endpoint's resolver
  mnLog,     \* main: the requests served, in order, with the response of each
  mnLast,    \* main: the last request and the endpoint it was routed to
  prIn,      \* the sequence handed to both NewSequencedResponse calls
  prPc,      \* "new" before the two constructions, then "built"
  prRes,     \* the loop resolver and the repeatLast resolver
  prIdx,     \* SequencedResponse.idx of each of the two
  prOut      \* what each of the two returned, in call order

resolverVars == <<idx, mu, hist>>

flowVars == <<pc, ep, resp, trace, w, cancelled>>

srvVars == <<cfg, endpoints, mux, handled, resolverVars, flowVars>>

sqVars == <<sqIn, sqPc, sqRes, sqIdx, sqOut>>

wtVars == <<wtIn, wtPc, wtRes, wtOut>>

rsVars == <<rsIn, rsPc, rsOut>>

mnVars == <<mnCfg, mnPc, mnRes, mnMux, mnIdx, mnLog, mnLast>>

prVars == <<prIn, prPc, prRes, prIdx, prOut>>

vars == <<srvVars, sqVars, wtVars, rsVars, mnVars, prVars>>

Flows == 1 .. NumFlows

NoResult == [err |-> FALSE, res |-> NilResolver]

\* no request has been served yet
NoRequest == [method |-> "", path |-> "", endpoint |-> 0]

\* the parts of the state a specification does not run
SrvOff ==
  /\ cfg = [static |-> ZeroResponse, weighted |-> NilSlice, numGenerator |-> "",
            endBehavior |-> "", sequence |-> NilSlice]
  /\ endpoints = <<>>
  /\ mux = {}
  /\ idx = <<>>
  /\ mu = <<>>
  /\ hist = <<>>
  /\ handled = <<>>
  /\ pc = [p \in Flows |-> "off"]
  /\ ep = [p \in Flows |-> 0]
  /\ resp = [p \in Flows |-> ZeroResponse]
  /\ trace = [p \in Flows |-> <<>>]
  /\ w = [p \in Flows |-> NewWriter]
  /\ cancelled = [p \in Flows |-> FALSE]

SqOff ==
  /\ sqIn = [endBehavior |-> "", sequence |-> NilSlice]
  /\ sqPc = "off"
  /\ sqRes = NoResult
  /\ sqIdx = 0
  /\ sqOut = <<>>

WtOff ==
  /\ wtIn = [entries |-> NilSlice, numGenerator |-> ""]
  /\ wtPc = "off"
  /\ wtRes = NoResult
  /\ wtOut = <<>>

RsOff ==
  /\ rsIn = [kind |-> "", opts |-> <<>>, r |-> ZeroConfigResponse]
  /\ rsPc = "off"
  /\ rsOut = [err |-> FALSE, resp |-> ZeroResponse]

MnOff ==
  /\ mnCfg = [Endpoints |-> NilSlice]
  /\ mnPc = "off"
  /\ mnRes = [err |-> FALSE, endpoints |-> NilSlice]
  /\ mnMux = {}
  /\ mnIdx = <<>>
  /\ mnLog = <<>>
  /\ mnLast = NoRequest

PrOff ==
  /\ prIn = NilSlice
  /\ prPc = "off"
  /\ prRes = <<NilResolver, NilResolver>>
  /\ prIdx = <<0, 0>>
  /\ prOut = <<<<>>, <<>>>>

(***************************************************************************)
(* The sequenced resolver under a single caller.                           *)
(***************************************************************************)
Responses == {RespA, RespB, RespC}

EndBehaviors == {SequenceBehaviorLoop, SequenceBehaviorRepeatLast, "", "invalid"}

SqInit ==
  /\ sqIn \in [endBehavior : EndBehaviors, sequence : SlicesUpTo(Responses, MaxSeqLen)]
  /\ sqPc = "new"
  /\ sqRes = NoResult
  /\ sqIdx = 0
  /\ sqOut = <<>>

SqNew ==
  /\ sqPc = "new"
  /\ LET r == NewSequencedResponse(sqIn.endBehavior, sqIn.sequence)
     IN  /\ sqRes' = [err |-> r.err, res |-> r.res]
         /\ sqIdx' = r.idx
         /\ sqPc' = IF r.err THEN "failed" ELSE "built"
  /\ UNCHANGED <<sqIn, sqOut, srvVars, wtVars, rsVars, mnVars, prVars>>

\* one whole NextResponse call: lock, read, move the cursor, unlock
SqNextResponse ==
  /\ sqPc = "built"
  /\ Len(sqOut) < MaxCalls
  /\ sqOut' = Append(sqOut, SequencedRead(sqRes.res, sqIdx))
  /\ sqIdx' = SequencedAdvance(sqRes.res, sqIdx)
  /\ UNCHANGED <<sqIn, sqPc, sqRes, srvVars, wtVars, rsVars, mnVars, prVars>>

SqNext ==
  \/ SqNew
  \/ SqNextResponse

InitSeq == SqInit /\ SrvOff /\ WtOff /\ RsOff /\ MnOff /\ PrOff

SpecSeq == InitSeq /\ [][SqNext]_vars

(***************************************************************************)
(* Two sequenced resolvers over one sequence, the first with end behavior  *)
(* loop and the second with repeatLast, called side by side: every step    *)
(* calls NextResponse on both.                                             *)
(***************************************************************************)
PairBehaviors == <<SequenceBehaviorLoop, SequenceBehaviorRepeatLast>>

PrInit ==
  /\ prIn \in SlicesUpTo(Responses, MaxSeqLen)
  /\ prPc = "new"
  /\ prRes = <<NilResolver, NilResolver>>
  /\ prIdx = <<0, 0>>
  /\ prOut = <<<<>>, <<>>>>

PrNew ==
  /\ prPc = "new"
  /\ LET r == [k \in 1 .. 2 |-> NewSequencedResponse(PairBehaviors[k], prIn)]
     IN  /\ prRes' = [k \in 1 .. 2 |-> r[k].res]
         /\ prIdx' = [k \in 1 .. 2 |-> r[k].idx]
         /\ prPc' = IF r[1].err \/ r[2].err THEN "failed" ELSE "built"
  /\ UNCHANGED <<prIn, prOut, srvVars, sqVars, wtVars, rsVars, mnVars>>

\* one NextResponse call on each of the two
PrNextResponse ==
  /\ prPc = "built"
  /\ Len(prOut[1]) < MaxCalls
  /\ prOut' = [k \in 1 .. 2 |-> Append(prOut[k], SequencedRead(prRes[k], prIdx[k]))]
  /\ prIdx' = [k \in 1 .. 2 |-> SequencedAdvance(prRes[k], prIdx[k])]
  /\ UNCHANGED <<prIn, prPc, prRes, srvVars, sqVars, wtVars, rsVars, mnVars>>

PrNext ==
  \/ PrNew
  \/ PrNextResponse

InitPair == PrInit /\ SrvOff /\ SqOff /\ WtOff /\ RsOff /\ MnOff

SpecPair == InitPair /\ [][PrNext]_vars

(***************************************************************************)
(* The weighted resolver under a single caller.                            *)
(***************************************************************************)
\* entry i of a configured list answers a response of its own
EntryResponse(i) == At(<<RespA, RespB, RespC>>, i % 3)

RECURSIVE EntryLists(_)
EntryLists(n) ==
  IF n = 0 THEN {<<>>}
  ELSE LET shorter == EntryLists(n - 1)
       IN  shorter \cup
           {Append(s, WeightedResponseEntry(EntryResponse(n - 1), wgt)) :
              s \in {t \in shorter : Len(t) = n - 1},
              wgt \in ((0 - 1) .. MaxWeight) \cup {MaxInt}}

WtInit ==
  /\ wtIn \in [entries : {NilSlice} \cup {Slice(s) : s \in EntryLists(MaxEntries)},
               numGenerator : {"", "mock"}]
  /\ wtPc = "new"
  /\ wtRes = NoResult
  /\ wtOut = <<>>

WtNew ==
  /\ wtPc = "new"
  /\ wtRes' = NewWeightedResponse(wtIn.entries, wtIn.numGenerator)
  /\ wtPc' = IF wtRes'.err THEN "failed" ELSE "built"
  /\ UNCHANGED <<wtIn, wtOut, srvVars, sqVars, rsVars, mnVars, prVars>>

\* one NextResponse call: the generator answers val, the scan decides; a
\* generator that panics ends the call, recorded with the n it was asked
\* for in place of a value
WtNextResponse ==
  /\ wtPc = "built"
  /\ Len(wtOut) < MaxDraws
  /\ IF NPanics(wtRes.res.numGenerator, wtRes.res.weightTotal)
     THEN wtOut' = Append(wtOut, [val |-> wtRes.res.weightTotal, panic |-> TRUE,
                                  resp |-> ZeroResponse, index |-> 0 - 1])
     ELSE \E val \in N(wtRes.res.numGenerator, wtRes.res.weightTotal) :
            LET o == WeightedNextResponse(wtRes.res, val)
            IN  wtOut' = Append(wtOut, [val |-> val, panic |-> o.panic,
                                        resp |-> o.resp, index |-> o.index])
  /\ UNCHANGED <<wtIn, wtPc, wtRes, srvVars, sqVars, rsVars, mnVars, prVars>>

WtNext ==
  \/ WtNew
  \/ WtNextResponse

InitWeighted == WtInit /\ SrvOff /\ SqOff /\ RsOff /\ MnOff /\ PrOff

SpecWeighted == InitWeighted /\ [][WtNext]_vars

(***************************************************************************)
(* Response construction under a single caller: NewResponse on a list of   *)
(* options, and Response.toRest on a configured response.                  *)
(***************************************************************************)
StatusCodes == {0, 99, 100, 429, 599, 600}

Delays == {0 - 1, 0, 1}

HeaderSets == {{}, {<<"Content-Type", "text/plain">>}}

ResponseOptions ==
  {WithResponseStatus(n) : n \in StatusCodes}
    \cup {WithResponseDelay(n) : n \in Delays}
    \cup {WithResponseHeaders(h) : h \in HeaderSets}
    \cup {WithResponseBody(b) : b \in {"", "a"}}

ConfigResponses ==
  [StatusCode : StatusCodes,
   Headers : HeaderSets,
   Body : [Literal : {"", "a"}, FilePath : {"", "/body.txt", "/empty.txt", "/missing.txt"}],
   Delay : {"", "0", "1", "0s", "1s", "-1s", "soon"}]

RsInit ==
  /\ rsIn \in {[kind |-> "opts", opts |-> l, r |-> ZeroConfigResponse] :
                 l \in SeqsUpTo(ResponseOptions, MaxOpts)}
              \cup {[kind |-> "config", opts |-> <<>>, r |-> c] : c \in ConfigResponses}
  /\ rsPc = "new"
  /\ rsOut = [err |-> FALSE, resp |-> ZeroResponse]

\* resp, err := NewResponse(opts...)
RsNewResponse ==
  /\ rsPc = "new"
  /\ rsIn.kind = "opts"
  /\ rsOut' = NewResponse(rsIn.opts)
  /\ rsPc' = "done"
  /\ UNCHANGED <<rsIn, srvVars, sqVars, wtVars, mnVars, prVars>>

\* resp, err := r.toRest()
RsToRest ==
  /\ rsPc = "new"
  /\ rsIn.kind = "config"
  /\ rsOut' = toRest(rsIn.r)
  /\ rsPc' = "done"
  /\ UNCHANGED <<rsIn, srvVars, sqVars, wtVars, mnVars, prVars>>

RsNext ==
  \/ RsNewResponse
  \/ RsToRest

InitResponse == RsInit /\ SrvOff /\ SqOff /\ WtOff /\ MnOff /\ PrOff

SpecResponse == InitResponse /\ [][RsNext]_vars

(***************************************************************************)
(* The server: three endpoints, one per resolver variant, built from a     *)
(* configuration, registered with the mux and hit by concurrent requests.  *)
(***************************************************************************)
Methods == {"GET", "POST", "HEAD"}

Paths == {"/static", "/weighted", "/sequence", "/missing"}

\* the sequence of length n the sequenced endpoint is configured with
ServerSequence(n) == [i \in 1 .. n |-> IF i % 2 = 1 THEN RespB ELSE RespA]

\* the configurations the server is started with
ServerConfigs ==
  [static : {RespC},
   weighted : {Slice(<<WeightedResponseEntry(RespA, 3), WeightedResponseEntry(RespC, 1)>>)},
   numGenerator : {"mock"},
   endBehavior : {SequenceBehaviorLoop, SequenceBehaviorRepeatLast},
   sequence : {Slice(ServerSequence(n)) : n \in 1 .. MaxSeqLen}]

\* the endpoint list of a configuration
BuildEndpoints(c) ==
  <<NewEndpoint("/static", "GET", StaticResponse(c.static)),
    NewEndpoint("/weighted", "POST", NewWeightedResponse(c.weighted, c.numGenerator).res),
    NewEndpoint("/sequence", "", NewSequencedResponse(c.endBehavior, c.sequence).res)>>

SrvInit ==
  /\ cfg \in ServerConfigs
  /\ endpoints = BuildEndpoints(cfg)
  /\ mux = RegisterHandlers(endpoints)
  /\ idx = [e \in 1 .. Len(endpoints) |-> NewSequencedResponse(cfg.endBehavior, cfg.sequence).idx]
  /\ mu = [e \in 1 .. Len(endpoints) |-> 0]
  /\ hist = [e \in 1 .. Len(endpoints) |-> <<>>]
  /\ handled = [e \in 1 .. Len(endpoints) |-> 0]
  /\ pc = [p \in Flows |-> "idle"]
  /\ ep = [p \in Flows |-> 0]
  /\ resp = [p \in Flows |-> ZeroResponse]
  /\ trace = [p \in Flows |-> <<>>]
  /\ w = [p \in Flows |-> NewWriter]
  /\ cancelled = [p \in Flows |-> FALSE]

Resolver(p) == endpoints[ep[p]].responseResolver

\* the NextResponse calls endpoint e has seen or is about to see
Started(e) == Len(hist[e]) + Cardinality({p \in Flows : pc[p] = "Response" /\ ep[p] = e})

\* a request arrives and the mux routes it to the handler of an endpoint
Accept(p) ==
  /\ pc[p] = "idle"
  /\ \E method \in Methods, path \in Paths :
       \E h \in MuxMatch(mux, method, path) :
         /\ endpoints[h.endpoint].responseResolver.kind = "sequenced"
              => Started(h.endpoint) < MaxRequests
         /\ ep' = [ep EXCEPT ![p] = h.endpoint]
         /\ handled' = IF endpoints[h.endpoint].responseResolver.kind = "sequenced"
                        THEN [handled EXCEPT ![h.endpoint] = @ + 1]
                        ELSE handled
  /\ pc' = [pc EXCEPT ![p] = "Response"]
  /\ UNCHANGED <<cfg, endpoints, mux, cancelled, resolverVars, resp, trace, w, sqVars, wtVars, rsVars, mnVars, prVars>>

\* a request no registered pattern matches reaches no handler of an
\* endpoint: the mux answers it
NotFound(p) ==
  /\ pc[p] = "idle"
  /\ \E method \in Methods, path \in Paths : MuxMatch(mux, method, path) = {}
  /\ pc' = [pc EXCEPT ![p] = "done"]
  /\ trace' = [trace EXCEPT ![p] = <<"NotFound">>]
  /\ UNCHANGED <<cfg, endpoints, mux, handled, cancelled, resolverVars, ep, resp, w, sqVars, wtVars, rsVars, mnVars, prVars>>

\* endpoint.Response() has returned r to the handler of flow p
Returned(p, r) ==
  /\ resp' = [resp EXCEPT ![p] = r]
  /\ trace' = [trace EXCEPT ![p] = Append(@, "Response")]
  /\ pc' = [pc EXCEPT ![p] = HandlerNext("Response", r)]

\* resp := endpoint.Response() on a static resolver
ResponseStatic(p) ==
  /\ pc[p] = "Response"
  /\ Resolver(p).kind = "static"
  /\ Returned(p, StaticNextResponse(Resolver(p)))
  /\ UNCHANGED <<cfg, endpoints, mux, handled, cancelled, resolverVars, ep, w, sqVars, wtVars, rsVars, mnVars, prVars>>

\* a panic that nothing recovers: it takes the whole process down, and the
\* handlers of all requests with it
PanicUnrecovered(pcs, p) == [q \in DOMAIN pcs |-> "crashed"]

\* the handler of flow p panics: the panic unwinds that handler's goroutine
\* only, where the server that called the handler recovers it
Panic(pcs, p) == [pcs EXCEPT ![p] = "done"]

\* resp := endpoint.Response() on a weighted resolver; a panic ends the
\* handler
ResponseWeighted(p) ==
  /\ pc[p] = "Response"
  /\ Resolver(p).kind = "weighted"
  /\ \E val \in N(Resolver(p).numGenerator, Resolver(p).weightTotal) :
       LET o == WeightedNextResponse(Resolver(p), val)
       IN  IF o.panic
           THEN /\ pc' = Panic(pc, p)
                /\ trace' = [trace EXCEPT ![p] = Append(@, "panic")]
                /\ resp' = resp
           ELSE Returned(p, o.resp)
  /\ UNCHANGED <<cfg, endpoints, mux, handled, cancelled, resolverVars, ep, w, sqVars, wtVars, rsVars, mnVars, prVars>>

\* endpoint.Response() on a sequenced resolver, first half: s.mu.Lock() and
\* resp := s.sequence[s.idx]
SequencedLock(p) ==
  /\ pc[p] = "Response"
  /\ Resolver(p).kind = "sequenced"
  /\ MutexFree(mu[ep[p]])
  /\ mu' = [mu EXCEPT ![ep[p]] = p]
  /\ resp' = [resp EXCEPT ![p] = SequencedRead(Resolver(p), idx[ep[p]])]
  /\ hist' = [hist EXCEPT ![ep[p]] = Append(@, idx[ep[p]])]
  /\ pc' = [pc EXCEPT ![p] = "locked"]
  /\ UNCHANGED <<cfg, endpoints, mux, handled, cancelled, idx, ep, trace, w, sqVars, wtVars, rsVars, mnVars, prVars>>

\* second half: the cursor moves, the deferred s.mu.Unlock() runs and the
\* response read under the lock is returned
SequencedUnlock(p) ==
  /\ pc[p] = "locked"
  /\ idx' = SequencedStore(idx, ep[p], SequencedAdvance(Resolver(p), idx[ep[p]]))
  /\ mu' = [mu EXCEPT ![ep[p]] = MutexUnlock(@)]
  /\ Returned(p, resp[p])
  /\ UNCHANGED <<cfg, endpoints, mux, handled, cancelled, hist, ep, w, sqVars, wtVars, rsVars, mnVars, prVars>>

\* a handler that writes the body a second time when the first write failed
ExecRetryWrite(stmt, r, st, ok) ==
  [trace |-> Append(st.trace, stmt)
               \o (IF stmt = "Write" /\ ~ok THEN <<"Warn", "Write">> ELSE <<>>),
   w |-> CASE stmt = "SetHeaders"  -> WriterSetHeaders(st.w, r.headers)
           [] stmt = "WriteHeader" -> WriterWriteHeader(st.w, r.statusCode)
           [] stmt = "Write"       ->
                IF ok THEN WriterWrite(st.w, r.body, ok)
                ELSE WriterWrite(WriterWrite(st.w, r.body, ok), r.body, TRUE)]

\* one statement of the handler that does not block, on the statements
\* executed so far and the writer; ok tells whether the transport takes
\* the body
Exec(stmt, r, st, ok) ==
  [trace |-> Append(st.trace, stmt)
               \o (IF stmt = "Write" /\ ~ok THEN <<"Warn">> ELSE <<>>),
   w |-> CASE stmt = "SetHeaders"  -> WriterSetHeaders(st.w, r.headers)
           [] stmt = "WriteHeader" -> WriterWriteHeader(st.w, r.statusCode)
           [] stmt = "Write"       -> WriterWrite(st.w, r.body, ok)]

\* the handler from stmt on, up to the statement it blocks at or its return
RECURSIVE RunFrom(_, _, _, _)
RunFrom(stmt, r, st, ok) ==
  IF stmt \in {"done", "Sleep"} THEN [at |-> stmt, trace |-> st.trace, w |-> st.w]
  ELSE RunFrom(HandlerNext(stmt, r), r, Exec(stmt, r, st, ok), ok)

\* the client goes away while the handler waits out the delay: the context
\* of the request is cancelled; time.Sleep does not look at it
Cancel(p) ==
  /\ pc[p] = "Sleep"
  /\ ~cancelled[p]
  /\ cancelled' = [cancelled EXCEPT ![p] = TRUE]
  /\ UNCHANGED <<cfg, endpoints, mux, handled, resolverVars, pc, ep, resp, trace, w, sqVars, wtVars, rsVars, mnVars, prVars>>

\* time.Sleep(resp.delay) is over
Sleep(p) ==
  /\ pc[p] = "Sleep"
  /\ trace' = [trace EXCEPT ![p] = Append(@, "Sleep")]
  /\ pc' = [pc EXCEPT ![p] = HandlerNext("Sleep", resp[p])]
  /\ UNCHANGED <<cfg, endpoints, mux, handled, cancelled, resolverVars, ep, resp, w, sqVars, wtVars, rsVars, mnVars, prVars>>

\* the headers, the status code and the body go to the writer; a failed
\* write of the body is logged and the handler returns, as it does after a
\* write that succeeded
Respond(p) ==
  /\ pc[p] \in {"SetHeaders", "WriteHeader", "Write"}
  /\ \E ok \in BOOLEAN :
       LET run == RunFrom(pc[p], resp[p], [trace |-> trace[p], w |-> w[p]], ok)
       IN  /\ pc' = [pc EXCEPT ![p] = run.at]
           /\ trace' = [trace EXCEPT ![p] = run.trace]
           /\ w' = [w EXCEPT ![p] = run.w]
  /\ UNCHANGED <<cfg, endpoints, mux, handled, cancelled, resolverVars, ep, resp, sqVars, wtVars, rsVars, mnVars, prVars>>

\* the handler has returned (or its panic was recovered): the request is
\* over and the flow is free for the next one
Return(p) ==
  /\ pc[p] = "done"
  /\ pc' = [pc EXCEPT ![p] = "idle"]
  /\ ep' = [ep EXCEPT ![p] = 0]
  /\ resp' = [resp EXCEPT ![p] = ZeroResponse]
  /\ trace' = [trace EXCEPT ![p] = <<>>]
  /\ w' = [w EXCEPT ![p] = NewWriter]
  /\ cancelled' = [cancelled EXCEPT ![p] = FALSE]
  /\ UNCHANGED <<cfg, endpoints, mux, handled, resolverVars, sqVars, wtVars, rsVars, mnVars, prVars>>

Next ==
  \/ \E p \in Flows : Accept(p)
  \/ \E p \in Flows : NotFound(p)
  \/ \E p \in Flows : ResponseStatic(p)
  \/ \E p \in Flows : ResponseWeighted(p)
  \/ \E p \in Flows : SequencedLock(p)
  \/ \E p \in Flows : SequencedUnlock(p)
  \/ \E p \in Flows : Sleep(p)
  \/ \E p \in Flows : Respond(p)
  \/ \E p \in Flows : Return(p)

Init == SrvInit /\ SqOff /\ WtOff /\ RsOff /\ MnOff /\ PrOff

Spec == Init /\ [][Next]_vars

\* the server with clients that may go away while their request is delayed
NextCancel ==
  \/ \E p \in Flows : Accept(p)
  \/ \E p \in Flows : NotFound(p)
  \/ \E p \in Flows : ResponseStatic(p)
  \/ \E p \in Flows : ResponseWeighted(p)
  \/ \E p \in Flows : SequencedLock(p)
  \/ \E p \in Flows : SequencedUnlock(p)
  \/ \E p \in Flows : Cancel(p)
  \/ \E p \in Flows : Sleep(p)
  \/ \E p \in Flows : Respond(p)
  \/ \E p \in Flows : Return(p)

SpecCancel == Init /\ [][NextCancel]_vars

(***************************************************************************)
(* main: the configuration is translated into endpoints, the endpoints are *)
(* registered with the mux and the server listens; requests are then       *)
(* served one after the other.                                             *)
(***************************************************************************)
\* a configured response with a status code and nothing else
StatusOnly(status) == [ZeroConfigResponse EXCEPT !.StatusCode = status]

\* a configured response with a body and nothing else
BodyOnly(literal) == [ZeroConfigResponse EXCEPT !.Body = [Literal |-> literal, FilePath |-> ""]]

NoStrategy == [Static |-> NilPtr, Weighted |-> NilSlice, Sequence |-> NilPtr]

EndpointConfig(path, method, strategy) ==
  [Path |-> path, Method |-> method, ResponseStrategy |-> strategy]

\* one or two elements of S, in every order
OneOrTwo(S) == {<<a>> : a \in S} \cup {<<a, b>> : a \in S, b \in S}

\* sequence strategies: every end behavior, counts omitted, refused and up
\* to MaxCount
SequenceConfigs ==
  [EndBehavior : EndBehaviors,
   Responses : {NilSlice, Slice(<<>>)} \cup
               {Slice(l) : l \in OneOrTwo([Count : {NilPtr} \cup {Ptr(n) : n \in 0 .. MaxCount},
                                           Response : {StatusOnly(200), StatusOnly(429)}])}]

\* weighted strategies: the weight omitted (0) or given
WeightedConfigs ==
  {Slice(<<>>)} \cup
  {Slice(l) : l \in OneOrTwo([Weight : {0, 1, 2}, Response : {BodyOnly("a"), StatusOnly(500)}])}

\* static strategies: two responses the translation accepts and two it
\* refuses
StaticConfigs ==
  {BodyOnly("a"), StatusOnly(600), [ZeroConfigResponse EXCEPT !.Delay = "-1s"],
   [StatusOnly(404) EXCEPT !.Delay = "1s"]}

\* endpoints with several strategies, or none
MixedStrategies ==
  [Static : {NilPtr, Ptr(BodyOnly("a"))},
   Weighted : {NilSlice, Slice(<<>>), Slice(<<[Weight |-> 1, Response |-> StatusOnly(500)]>>)},
   Sequence : {NilPtr, Ptr([EndBehavior |-> "loop",
                            Responses |-> Slice(<<[Count |-> NilPtr, Response |-> StatusOnly(429)]>>)])}]

\* endpoints for the configurations of two: a static response under every
\* method and two paths, and one the translation refuses
PairEndpoints ==
  {EndpointConfig(path, method, [NoStrategy EXCEPT !.Static = Ptr(BodyOnly("a"))]) :
     path \in {"/static", "/sequence"}, method \in {"", "GET", "POST"}}
  \cup {EndpointConfig("/weighted", "", [NoStrategy EXCEPT !.Static = Ptr(StatusOnly(99))])}

\* one strategy of every kind, the sequenced one under both end behaviors
ResolverStrategies ==
  {[NoStrategy EXCEPT !.Static = Ptr(BodyOnly("a"))],
   [NoStrategy EXCEPT !.Weighted = Slice(<<[Weight |-> 1, Response |-> BodyOnly("a")],
                                           [Weight |-> 2, Response |-> StatusOnly(500)]>>)]}
  \cup {[NoStrategy EXCEPT !.Sequence =
           Ptr([EndBehavior |-> b,
                Responses |-> Slice(<<[Count |-> NilPtr, Response |-> StatusOnly(200)],
                                      [Count |-> NilPtr, Response |-> StatusOnly(429)]>>)])] :
          b \in {SequenceBehaviorLoop, SequenceBehaviorRepeatLast}}

\* the configuration files main is started with
MainConfigs ==
  {[Endpoints |-> NilSlice]}
  \cup {[Endpoints |-> Slice(<<EndpointConfig("/sequence", "POST", [NoStrategy EXCEPT !.Sequence = Ptr(s)])>>)] :
          s \in SequenceConfigs}
  \cup {[Endpoints |-> Slice(<<EndpointConfig("/weighted", "GET", [NoStrategy EXCEPT !.Weighted = l])>>)] :
          l \in WeightedConfigs}
  \cup {[Endpoints |-> Slice(<<EndpointConfig("/static", "", [NoStrategy EXCEPT !.Static = Ptr(r)])>>)] :
          r \in StaticConfigs}
  \cup {[Endpoints |-> Slice(<<EndpointConfig("/static", "", s)>>)] : s \in MixedStrategies}
  \cup {[Endpoints |-> Slice(<<a, b>>)] : a \in PairEndpoints, b \in PairEndpoints}
  \cup {[Endpoints |-> Slice(<<EndpointConfig("/sequence", "", a), EndpointConfig("/weighted", "", b)>>)] :
          a \in ResolverStrategies, b \in ResolverStrategies}

MnInit ==
  /\ mnCfg \in MainConfigs
  /\ mnPc = "RestEndpoints"
  /\ mnRes = [err |-> FALSE, endpoints |-> NilSlice]
  /\ mnMux = {}
  /\ mnIdx = <<>>
  /\ mnLog = <<>>
  /\ mnLast = NoRequest

\* a main that goes on after cfg.RestEndpoints() failed
MainAfterRestEndpointsAlways(err) == "RegisterHandlers"

\* if err != nil { slog.Error(...); os.Exit(1) }
MainAfterRestEndpoints(err) == IF err THEN "exited" ELSE "RegisterHandlers"

\* endpoints, err := cfg.RestEndpoints(), and the exit on an error
MnRestEndpoints ==
  /\ mnPc = "RestEndpoints"
  /\ mnRes' = RestEndpoints(mnCfg)
  /\ mnIdx' = [e \in 1 .. GoLen(mnRes'.endpoints) |-> 0]
  /\ mnPc' = MainAfterRestEndpoints(mnRes'.err)
  /\ UNCHANGED <<mnCfg, mnMux, mnLog, mnLast, srvVars, sqVars, wtVars, rsVars, prVars>>

\* mux := http.NewServeMux(); rest.RegisterHandlers(mux, endpoints); the
\* mux panics on a pattern it holds already
MnRegisterHandlers ==
  /\ mnPc = "RegisterHandlers"
  /\ IF PatternsConflict(mnRes.endpoints.elems)
     THEN mnPc' = "panicked" /\ mnMux' = mnMux
     ELSE mnPc' = "ListenAndServe" /\ mnMux' = RegisterHandlers(mnRes.endpoints.elems)
  /\ UNCHANGED <<mnCfg, mnRes, mnIdx, mnLog, mnLast, srvVars, sqVars, wtVars, rsVars, prVars>>

\* http.ListenAndServe(addr, mux): the server listens, or the call fails
\* and main exits
MnListenAndServe ==
  /\ mnPc = "ListenAndServe"
  /\ \E ok \in BOOLEAN : mnPc' = IF ok THEN "serving" ELSE "exited"
  /\ UNCHANGED <<mnCfg, mnRes, mnMux, mnIdx, mnLog, mnLast, srvVars, sqVars, wtVars, rsVars, prVars>>

\* a request the mux routes to the handler of an endpoint, which resolves
\* its response and writes it
MnServe ==
  /\ mnPc = "serving"
  /\ Len(mnLog) < MaxServed
  /\ \E method \in Methods, path \in Paths :
       \E h \in MuxMatch(mnMux, method, path) :
         LET e == h.endpoint
             r == mnRes.endpoints.elems[e].responseResolver
         IN  /\ mnLast' = [method |-> method, path |-> path, endpoint |-> e]
             /\ CASE r.kind = "static" ->
                       /\ mnLog' = Append(mnLog, [endpoint |-> e, resp |-> StaticNextResponse(r)])
                       /\ mnIdx' = mnIdx
                  [] r.kind = "weighted" ->
                       /\ \E val \in N(r.numGenerator, r.weightTotal) :
                            mnLog' = Append(mnLog, [endpoint |-> e,
                                                    resp |-> WeightedNextResponse(r, val).resp])
                       /\ mnIdx' = mnIdx
                  [] r.kind = "sequenced" ->
                       /\ mnLog' = Append(mnLog, [endpoint |-> e,
                                                  resp |-> SequencedRead(r, mnIdx[e])])
                       /\ mnIdx' = SequencedStore(mnIdx, e, SequencedAdvance(r, mnIdx[e]))
  /\ UNCHANGED <<mnCfg, mnPc, mnRes, mnMux, srvVars, sqVars, wtVars, rsVars, prVars>>

\* a request no registered pattern matches: the mux answers it, no handler
\* of an endpoint runs
MnNotFound ==
  /\ mnPc = "serving"
  /\ \E method \in Methods, path \in Paths :
       /\ MuxMatch(mnMux, method, path) = {}
       /\ mnLast' = [method |-> method, path |-> path, endpoint |-> 0]
  /\ UNCHANGED <<mnCfg, mnPc, mnRes, mnMux, mnIdx, mnLog, srvVars, sqVars, wtVars, rsVars, prVars>>

MnNext ==
  \/ MnRestEndpoints
  \/ MnRegisterHandlers
  \/ MnListenAndServe
  \/ MnServe
  \/ MnNotFound

InitMain == MnInit /\ SrvOff /\ SqOff /\ WtOff /\ RsOff /\ PrOff

SpecMain == InitMain /\ [][MnNext]_vars

(***************************************************************************)
(* Properties.                                                             *)
(***************************************************************************)
Min(a, b) == IF a < b THEN a ELSE b

\* the sum of the first n weights of an entry list
RECURSIVE SumWeights(_, _)
SumWeights(entries, n) ==
  IF n = 0 THEN 0 ELSE SumWeights(entries, n - 1) + entries[n].Weight

\* C1: a sequenced resolver built with loop over L responses answers, on
\* its k-th call, element (k-1) mod L of the sequence it was given.
C1_LoopCycles ==
  (sqPc = "built" /\ sqIn.endBehavior = "loop") =>
    \A k \in 1 .. Len(sqOut) :
      sqOut[k] = At(sqIn.sequence.elems, (k - 1) % GoLen(sqIn.sequence))

\* [A, B] under loop has answered A, B, A, B, A, B
C1_Witness ==
  /\ sqIn = [endBehavior |-> "loop", sequence |-> Slice(<<RespA, RespB>>)]
  /\ sqOut = <<RespA, RespB, RespA, RespB, RespA, RespB>>

\* C2: a sequenced resolver built with repeatLast over L responses answers,
\* on its k-th call, element min(k-1, L-1): every entry once, in order, and
\* the last one from then on.
C2_RepeatLast ==
  (sqPc = "built" /\ sqIn.endBehavior = "repeatLast") =>
    \A k \in 1 .. Len(sqOut) :
      sqOut[k] = At(sqIn.sequence.elems, Min(k - 1, GoLen(sqIn.sequence) - 1))

\* [A, B, C] under repeatLast has answered A, B, C, C, C
C2_Witness ==
  /\ sqIn = [endBehavior |-> "repeatLast", sequence |-> Slice(<<RespA, RespB, RespC>>)]
  /\ sqOut = <<RespA, RespB, RespC, RespC, RespC>>

\* the arguments NewSequencedResponse must refuse
SequencedArgsBad ==
  \/ GoLen(sqIn.sequence) = 0
  \/ sqIn.endBehavior \notin {"loop", "repeatLast"}

\* C9: NewSequencedResponse returns an error and a nil resolver exactly
\* when the sequence is empty (nil or of length 0) or the end behavior is
\* neither loop nor repeatLast; otherwise it returns a resolver over the
\* given sequence and end behavior whose cursor starts at 0.
C9_NewSequencedResponse ==
  sqPc # "new" =>
    /\ sqRes.err <=> SequencedArgsBad
    /\ sqRes.err <=> sqRes.res = NilResolver
    /\ sqRes.err <=> sqPc = "failed"
    /\ ~SequencedArgsBad =>
         /\ sqRes.res.kind = "sequenced"
         /\ sqRes.res.sequence = sqIn.sequence
         /\ sqRes.res.endBehavior = sqIn.endBehavior
         /\ sqOut = <<>> => sqIdx = 0

\* an empty, non-nil sequence with a valid end behavior was refused
C9_Witness ==
  /\ sqPc = "failed"
  /\ sqIn = [endBehavior |-> "loop", sequence |-> Slice(<<>>)]
  /\ sqRes.err

\* the entry lists NewWeightedResponse must refuse
WeightedArgsBad ==
  \/ GoLen(wtIn.entries) = 0
  \/ \E i \in 1 .. GoLen(wtIn.entries) : wtIn.entries.elems[i].Weight <= 0

\* C4: for a weighted resolver built from weights w[0..n-1], every value v
\* of [0, total) the generator answers selects the one entry i with
\* C[i-1] <= v < C[i], C being the running sums of the weights; so exactly
\* w[i] of the total values select entry i.
C4_WeightedSelection ==
  wtPc = "built" =>
    LET es    == wtIn.entries.elems
        n     == Len(es)
        total == SumWeights(es, n)
    IN  /\ \A k \in 1 .. Len(wtOut) :
             LET o == wtOut[k]
             IN  (0 <= o.val /\ o.val < total) =>
                   /\ ~o.panic
                   /\ o.index \in 0 .. (n - 1)
                   /\ \A i \in 0 .. (n - 1) :
                        (SumWeights(es, i) <= o.val /\ o.val < SumWeights(es, i + 1))
                          <=> i = o.index
                   /\ o.resp = At(es, o.index).Response
        /\ \A i \in 0 .. (n - 1) :
             Cardinality({v \in 0 .. (total - 1) :
                            WeightedNextResponse(wtRes.res, v).index = i})
               = At(es, i).Weight

\* [(A, 3), (B, 1)]: the value 2 selected A and the value 3 selected B
C4_Witness ==
  /\ wtIn.entries = Slice(<<WeightedResponseEntry(RespA, 3), WeightedResponseEntry(RespB, 1)>>)
  /\ Len(wtOut) = 2
  /\ wtOut[1].val = 2 /\ wtOut[1].resp = RespA /\ wtOut[1].index = 0
  /\ wtOut[2].val = 3 /\ wtOut[2].resp = RespB /\ wtOut[2].index = 1

\* C5: whenever the generator answers a value outside [0, total), be it
\* negative or at least total, NextResponse panics and returns no response.
C5_OutOfRangePanics ==
  wtPc = "built" =>
    \A k \in 1 .. Len(wtOut) :
      (wtOut[k].val < 0 \/ wtOut[k].val >= wtRes.res.weightTotal) => wtOut[k].panic

\* C10: NewWeightedResponse returns an error and a nil resolver exactly
\* when the entry list is empty (nil or of length 0) or some entry has a
\* weight <= 0; otherwise it returns a weighted resolver.
C10_NewWeightedResponse ==
  wtPc # "new" =>
    /\ wtRes.err <=> WeightedArgsBad
    /\ wtRes.err <=> wtRes.res = NilResolver
    /\ wtRes.err <=> wtPc = "failed"
    /\ ~WeightedArgsBad => wtRes.res.kind = "weighted"

\* a list whose second entry has weight 0 was refused
C10_Witness ==
  /\ wtPc = "failed"
  /\ wtIn.entries = Slice(<<WeightedResponseEntry(RespA, 2), WeightedResponseEntry(RespB, 0)>>)
  /\ wtRes.err

\* the flows whose handler has got its response from endpoint.Response()
Resolved(p) == ep[p] # 0 /\ pc[p] \in {"Sleep", "SetHeaders", "WriteHeader", "Write", "done"}
                         /\ trace[p] # <<"panic">>

\* the statements of a handler whose resolver answered r, in order
HandlerOrder(r) ==
  <<"Response">> \o (IF r.delay > 0 THEN <<"Sleep">> ELSE <<>>)
                 \o <<"SetHeaders", "WriteHeader", "Write">>

IsPrefix(s, t) == Len(s) <= Len(t) /\ \A i \in 1 .. Len(s) : s[i] = t[i]

\* the statements of a handler's trace, the warning it logged left out
Statements(t) == SelectSeq(t, LAMBDA stmt : stmt # "Warn")

\* C3: when N calls, N a multiple of L, have been made by concurrent
\* requests on a sequenced resolver with loop over L responses and all
\* have returned, every position of the sequence was read N/L times; and
\* no two calls of one cycle read the same position.
C3_ConcurrentCycles ==
  \A e \in 1 .. Len(endpoints) :
    LET s == endpoints[e].responseResolver
        L == GoLen(cfg.sequence)
        n == Len(hist[e])
    IN  (s.kind = "sequenced" /\ cfg.endBehavior = "loop") =>
          /\ \A j, k \in 1 .. n :
               (j < k /\ (j - 1) \div L = (k - 1) \div L) => hist[e][j] # hist[e][k]
          /\ (n % L = 0 /\ \A p \in Flows : ~(pc[p] = "locked" /\ ep[p] = e)) =>
               \A i \in 0 .. (L - 1) :
                 Cardinality({k \in 1 .. n : hist[e][k] = i}) = n \div L

\* two requests in flight at once made the last two of four calls on a
\* loop of two responses
C3_Witness ==
  /\ cfg.endBehavior = "loop"
  /\ GoLen(cfg.sequence) = 2
  /\ hist[3] = <<0, 1, 0, 1>>
  /\ ep[1] = 3 /\ ep[2] = 3
  /\ Resolved(1) /\ Resolved(2)
  /\ resp[1] # resp[2]

\* C6: a static resolver wrapping R answers R on every call, whatever the
\* number of calls and whatever calls the other resolvers get.
C6_StaticConstant ==
  \A p \in Flows :
    (Resolved(p) /\ endpoints[ep[p]].responseResolver.kind = "static") =>
      resp[p] = cfg.static

\* two requests got R from the static resolver while the sequenced
\* resolver was called twice
C6_Witness ==
  /\ ep[1] = 1 /\ ep[2] = 1
  /\ Resolved(1) /\ Resolved(2)
  /\ resp[1] = RespC /\ resp[2] = RespC
  /\ Len(hist[3]) >= 2

\* C7: a handler resolves the response, waits out its delay if it has one,
\* sets the headers, writes the status code and writes the body, in this
\* order: nothing reaches the writer before the delay is over, and the
\* status code and the headers of the response are out before the body.
C7_HandlerOrder ==
  \A p \in Flows :
    /\ (ep[p] # 0 /\ trace[p] # <<"panic">>) =>
         IsPrefix(Statements(trace[p]),
                  HandlerOrder(IF Resolved(p) THEN resp[p] ELSE ZeroResponse))
    /\ (pc[p] \in {"Response", "locked", "Sleep"}) => w[p] = NewWriter
    /\ (w[p].wroteBody \/ w[p].failed) =>
         /\ w[p].wroteHeader
         /\ w[p].status = resp[p].statusCode
         /\ w[p].sent = resp[p].headers
    /\ (pc[p] = "done" /\ Resolved(p)) =>
         /\ Statements(trace[p]) = HandlerOrder(resp[p])
         /\ w[p].wroteBody => w[p].body = resp[p].body

\* a response with a delay and a header went out whole
C7_Witness ==
  \E p \in Flows :
    /\ pc[p] = "done"
    /\ resp[p] = RespB
    /\ trace[p] = <<"Response", "Sleep", "SetHeaders", "WriteHeader", "Write">>
    /\ w[p].wroteBody
    /\ w[p].sent = RespB.headers

\* C8: a handler holds the mutex of a sequenced resolver only inside
\* NextResponse, never while it sleeps or writes; so while a request
\* sleeps, another request to the same or another endpoint that has
\* reached NextResponse can take the mutex unless a third one is inside.
C8_NoLockWhileDelaying ==
  /\ \A e \in 1 .. Len(endpoints) :
       mu[e] # 0 => (pc[mu[e]] = "locked" /\ ep[mu[e]] = e)
  /\ \A p, q \in Flows :
       ( /\ pc[p] \in {"Sleep", "SetHeaders", "WriteHeader", "Write"}
         /\ pc[q] = "Response"
         /\ endpoints[ep[q]].responseResolver.kind = "sequenced"
         /\ \A r \in Flows : ~(pc[r] = "locked" /\ ep[r] = ep[q]) )
       => ENABLED SequencedLock(q)

\* while flow 1 still sleeps on the first response of the sequence, flow 2
\* has got the second one and has written it
C8_Witness ==
  /\ pc[1] = "Sleep" /\ ep[1] = 3 /\ resp[1] = RespB
  /\ pc[2] = "done" /\ ep[2] = 3 /\ resp[2] = RespA /\ w[2].wroteBody
  /\ hist[3] = <<0, 1>>

\* the places of the options of one kind in an option list
Supplied(opts, o) == {i \in 1 .. Len(opts) : opts[i].opt = o}

\* the option of kind o that is applied last
LastOption(opts, o) ==
  opts[CHOOSE i \in Supplied(opts, o) : \A j \in Supplied(opts, o) : j <= i]

\* an option NewResponse must refuse
OptionBad(o) ==
  \/ o.opt = "status" /\ (o.n < 100 \/ o.n > 599)
  \/ o.opt = "delay" /\ o.n < 0

\* C11: NewResponse fails whenever one of its options carries a status code
\* outside [100,599] or a negative delay, and then returns the zero
\* Response; with only in-range options it succeeds, every field an option
\* supplies set to it and every other field at its default (status 200,
\* delay 0, no headers, no body).
C11_NewResponse ==
  (rsPc = "done" /\ rsIn.kind = "opts") =>
    LET opts == rsIn.opts
        bad  == \E i \in 1 .. Len(opts) : OptionBad(opts[i])
        r    == rsOut.resp
    IN  /\ rsOut.err <=> bad
        /\ rsOut.err => r = ZeroResponse
        /\ ~bad =>
             /\ r.statusCode = IF Supplied(opts, "status") = {} THEN 200
                               ELSE LastOption(opts, "status").n
             /\ r.delay = IF Supplied(opts, "delay") = {} THEN 0
                          ELSE LastOption(opts, "delay").n
             /\ r.headers = IF Supplied(opts, "headers") = {} THEN {}
                            ELSE LastOption(opts, "headers").headers
             /\ r.body = IF Supplied(opts, "body") = {} THEN ""
                         ELSE LastOption(opts, "body").body

\* a body and a status were applied before a negative delay was refused,
\* and nothing of them came back
C11_Witness ==
  /\ rsPc = "done"
  /\ rsIn.opts = <<WithResponseBody("a"), WithResponseStatus(429), WithResponseDelay(0 - 1)>>
  /\ rsOut.err
  /\ rsOut.resp = ZeroResponse

\* a configured response the translation must refuse for another reason
\* than its status code
ConfigResponseBadElsewhere(r) ==
  \/ r.Delay # "" /\ (ParseDuration(r.Delay).err \/ ParseDuration(r.Delay).d < 0)
  \/ r.Body.Literal # "" /\ r.Body.FilePath # ""
  \/ r.Body.FilePath # "" /\ r.Body.FilePath \notin DOMAIN Files

\* C12, as claimed: a response constructed with status 0 is built and has
\* status code 200, through NewResponse and through the configuration
\* alike, while 99 and 600 are refused.
C12_StatusZeroDefaults ==
  rsPc = "done" =>
    /\ ( /\ rsIn.kind = "opts"
         /\ Supplied(rsIn.opts, "status") # {}
         /\ \A i \in 1 .. Len(rsIn.opts) :
              IF rsIn.opts[i].opt = "status" THEN rsIn.opts[i].n = 0
              ELSE ~OptionBad(rsIn.opts[i]) )
       => (~rsOut.err /\ rsOut.resp.statusCode = 200)
    /\ (rsIn.kind = "config" /\ rsIn.r.StatusCode = 0 /\ ~ConfigResponseBadElsewhere(rsIn.r))
       => (~rsOut.err /\ rsOut.resp.statusCode = 200)
    /\ (rsIn.kind = "opts" /\ \E i \in Supplied(rsIn.opts, "status") : rsIn.opts[i].n \in {99, 600})
       => rsOut.err
    /\ (rsIn.kind = "config" /\ rsIn.r.StatusCode \in {99, 600}) => rsOut.err

\* C12, amended: a configured response whose status is 0 (the translation
\* then passes no status option) is built and has status code 200, and so
\* has an option list without a status option; a WithResponseStatus(0)
\* option is refused, as are 99 and 600 on either way.
C12_StatusZero ==
  rsPc = "done" =>
    /\ (rsIn.kind = "config" /\ rsIn.r.StatusCode = 0 /\ ~ConfigResponseBadElsewhere(rsIn.r))
       => (~rsOut.err /\ rsOut.resp.statusCode = 200)
    /\ ( /\ rsIn.kind = "opts"
         /\ Supplied(rsIn.opts, "status") = {}
         /\ \A i \in 1 .. Len(rsIn.opts) : ~OptionBad(rsIn.opts[i]) )
       => (~rsOut.err /\ rsOut.resp.statusCode = 200)
    /\ (rsIn.kind = "opts" /\ \E i \in Supplied(rsIn.opts, "status") : rsIn.opts[i].n \in {0, 99, 600})
       => (rsOut.err /\ rsOut.resp = ZeroResponse)
    /\ (rsIn.kind = "config" /\ rsIn.r.StatusCode \in {99, 600})
       => (rsOut.err /\ rsOut.resp = ZeroResponse)

\* a configured response with status 0, a header and a body from a file
\* came out with status code 200
C12_Witness ==
  /\ rsPc = "done"
  /\ rsIn.kind = "config"
  /\ rsIn.r = [StatusCode |-> 0, Headers |-> {<<"Content-Type", "text/plain">>},
               Body |-> [Literal |-> "", FilePath |-> "/body.txt"], Delay |-> "1s"]
  /\ rsOut = [err |-> FALSE,
              resp |-> [headers |-> {<<"Content-Type", "text/plain">>}, body |-> "f",
                        statusCode |-> 200, delay |-> 1]]

\* the endpoints of the configuration file
CfgEndpoints == mnCfg.Endpoints.elems

\* the number of strategies a configured endpoint sets
StrategiesSet(endpointCfg) ==
  Cardinality({k \in {"Static", "Weighted", "Sequence"} :
                 ~endpointCfg.ResponseStrategy[k].isNil})

\* the configuration is one endpoint with the strategy k and no other
Only(k) ==
  /\ Len(CfgEndpoints) = 1
  /\ StrategiesSet(CfgEndpoints[1]) = 1
  /\ ~CfgEndpoints[1].ResponseStrategy[k].isNil

\* n times x
Repeat(x, n) == [i \in 1 .. n |-> x]

\* the first n entries of a configured sequence written out: the response
\* of each as often as its count says, once when it has none
RECURSIVE Concatenation(_, _)
Concatenation(entries, n) ==
  IF n = 0 THEN <<>>
  ELSE Concatenation(entries, n - 1)
         \o Repeat(toRest(entries[n].Response).resp,
                   IF entries[n].Count.isNil THEN 1 ELSE entries[n].Count.v)

\* C13: a sequence strategy configured without an endBehavior cycles: call
\* k on its endpoint answers element (k-1) mod L of the configured
\* sequence, going back to the first one after the last.
C13_DefaultLoop ==
  (Only("Sequence") /\ mnPc = "serving"
     /\ CfgEndpoints[1].ResponseStrategy.Sequence.v.EndBehavior = "") =>
    LET entries == CfgEndpoints[1].ResponseStrategy.Sequence.v.Responses.elems
        seq     == Concatenation(entries, Len(entries))
    IN  \A k \in 1 .. Len(mnLog) : mnLog[k].resp = seq[((k - 1) % Len(seq)) + 1]

\* the weight a configured entry is meant to have: 1 when it gives none
WeightOrOne(entry) == IF entry.Weight = 0 THEN 1 ELSE entry.Weight

RECURSIVE SumWeightOrOne(_, _)
SumWeightOrOne(entries, n) ==
  IF n = 0 THEN 0 ELSE SumWeightOrOne(entries, n - 1) + WeightOrOne(entries[n])

\* C14: a weighted strategy whose entries give a weight or none is
\* accepted, an entry without a weight counting 1 in the total weight.
C14_DefaultWeight ==
  (Only("Weighted") /\ mnPc # "RestEndpoints"
     /\ GoLen(CfgEndpoints[1].ResponseStrategy.Weighted) > 0) =>
    LET entries == CfgEndpoints[1].ResponseStrategy.Weighted.elems
    IN  /\ ~mnRes.err
        /\ mnRes.endpoints.elems[1].responseResolver.weightTotal
             = SumWeightOrOne(entries, Len(entries))

\* C15: the sequence built from a configured sequence strategy is, in the
\* configured order, the response of every entry count times, once for an
\* entry without a count; a count <= 0 is refused with an error; the calls
\* on the endpoint answer the elements of that sequence in order.
C15_ConfiguredSequence ==
  (Only("Sequence") /\ mnPc # "RestEndpoints") =>
    LET entries == CfgEndpoints[1].ResponseStrategy.Sequence.v.Responses.elems
        seq     == Concatenation(entries, Len(entries))
    IN  /\ (\E i \in 1 .. Len(entries) : ~entries[i].Count.isNil /\ entries[i].Count.v <= 0)
             => (mnRes.err /\ mnRes.endpoints = NilSlice)
        /\ ~mnRes.err =>
             /\ mnRes.endpoints.elems[1].responseResolver.sequence = Slice(seq)
             /\ \A k \in 1 .. Min(Len(mnLog), Len(seq)) : mnLog[k].resp = seq[k]

\* [count 4: 200, count 1: 429] answered 200 four times and 429 on the
\* fifth call
C15_Witness ==
  /\ Only("Sequence")
  /\ CfgEndpoints[1].ResponseStrategy.Sequence.v.Responses
       = Slice(<<[Count |-> Ptr(4), Response |-> StatusOnly(200)],
                 [Count |-> Ptr(1), Response |-> StatusOnly(429)]>>)
  /\ Len(mnLog) = 5
  /\ \A k \in 1 .. 4 : mnLog[k].resp.statusCode = 200
  /\ mnLog[5].resp.statusCode = 429

\* C16: RestEndpoints succeeds only if every endpoint sets exactly one of
\* the static, weighted and sequence strategies; an endpoint with none or
\* with two or more makes it return an error and no endpoint list.
C16_ExactlyOneStrategy ==
  mnPc # "RestEndpoints" =>
    /\ (\E i \in 1 .. Len(CfgEndpoints) : StrategiesSet(CfgEndpoints[i]) # 1)
         => (mnRes.err /\ mnRes.endpoints = NilSlice)
    /\ ~mnRes.err =>
         /\ \A i \in 1 .. Len(CfgEndpoints) : StrategiesSet(CfgEndpoints[i]) = 1
         /\ GoLen(mnRes.endpoints) = Len(CfgEndpoints)

\* an endpoint with a static and a sequence strategy, each of them fine,
\* was refused
C16_Witness ==
  /\ Len(CfgEndpoints) = 1
  /\ CfgEndpoints[1].ResponseStrategy
       = [Static |-> Ptr(BodyOnly("a")), Weighted |-> NilSlice,
          Sequence |-> Ptr([EndBehavior |-> "loop",
                            Responses |-> Slice(<<[Count |-> NilPtr, Response |-> StatusOnly(429)]>>)])]
  /\ mnPc = "exited"
  /\ mnRes = [err |-> TRUE, endpoints |-> NilSlice]

\* a configured response with a status code out of range or a negative
\* delay
ResponseInvalid(r) ==
  \/ r.StatusCode # 0 /\ (r.StatusCode < 100 \/ r.StatusCode > 599)
  \/ r.Delay # "" /\ ~ParseDuration(r.Delay).err /\ ParseDuration(r.Delay).d < 0

\* a configured endpoint that is invalid: the wrong number of strategies,
\* an empty weighted or sequenced list, a weight <= 0, an unknown end
\* behavior, a response that is invalid
EndpointInvalid(endpointCfg) ==
  LET s == endpointCfg.ResponseStrategy
  IN  \/ StrategiesSet(endpointCfg) # 1
      \/ ~s.Static.isNil /\ ResponseInvalid(s.Static.v)
      \/ /\ ~s.Weighted.isNil
         /\ \/ GoLen(s.Weighted) = 0
            \/ \E i \in 1 .. GoLen(s.Weighted) :
                 s.Weighted.elems[i].Weight <= 0 \/ ResponseInvalid(s.Weighted.elems[i].Response)
      \/ /\ ~s.Sequence.isNil
         /\ \/ GoLen(s.Sequence.v.Responses) = 0
            \/ s.Sequence.v.EndBehavior \notin {"", "loop", "repeatLast"}
            \/ \E i \in 1 .. GoLen(s.Sequence.v.Responses) :
                 ResponseInvalid(s.Sequence.v.Responses.elems[i].Response)

ConfigInvalid == \E i \in 1 .. Len(CfgEndpoints) : EndpointInvalid(CfgEndpoints[i])

\* C17: a configuration with an invalid endpoint makes RestEndpoints fail,
\* and when RestEndpoints fails main exits: no handler is registered, the
\* server never listens and no request is served, whatever valid endpoints
\* come before the invalid one.
C17_NoServingWhenInvalid ==
  /\ (ConfigInvalid /\ mnPc # "RestEndpoints") => mnRes.err
  /\ (ConfigInvalid \/ mnRes.err) =>
       /\ mnPc \in {"RestEndpoints", "exited"}
       /\ mnRes.endpoints = NilSlice
       /\ mnMux = {}
       /\ mnLog = <<>>
       /\ mnLast = NoRequest

\* a valid endpoint followed by one with status 99: main has exited with
\* nothing registered
C17_Witness ==
  /\ Len(CfgEndpoints) = 2
  /\ ~EndpointInvalid(CfgEndpoints[1])
  /\ EndpointInvalid(CfgEndpoints[2])
  /\ mnPc = "exited"
  /\ mnRes.err
  /\ mnMux = {}

\* C20: one handler is registered per endpoint, under "METHOD PATH" when
\* the endpoint has a method and under the bare path when it has none; a
\* request is routed to an endpoint only if its path is the endpoint's and
\* its method is the endpoint's or the endpoint has none, and a request
\* whose method and path are those of no endpoint reaches no resolver.
C20_ExactRouting ==
  mnPc = "serving" =>
    LET eps == mnRes.endpoints.elems
    IN  /\ Cardinality(mnMux) = Len(eps)
        /\ \A e \in 1 .. Len(eps) :
             \E h \in mnMux :
               /\ h.endpoint = e
               /\ h.pattern = <<eps[e].Method, eps[e].Path>>
        /\ mnLast.endpoint # 0 =>
             /\ eps[mnLast.endpoint].Path = mnLast.path
             /\ eps[mnLast.endpoint].Method \in {"", mnLast.method}
        /\ (mnLast # NoRequest
              /\ \A e \in 1 .. Len(eps) :
                   ~(eps[e].Path = mnLast.path /\ eps[e].Method \in {"", mnLast.method}))
             => mnLast.endpoint = 0

\* the step of flow q that comes next is there to be taken (a flow that
\* has its response writes it without waiting for anything)
CanGoOn(q) ==
  /\ pc[q] = "locked" => ENABLED SequencedUnlock(q)
  /\ pc[q] = "Sleep" => ENABLED Sleep(q)
  /\ pc[q] = "done" => ENABLED Return(q)
  /\ pc[q] = "Response" =>
       \/ ENABLED ResponseStatic(q)
       \/ ENABLED ResponseWeighted(q)
       \/ ENABLED SequencedLock(q)
       \/ \E r \in Flows : pc[r] = "locked" /\ ep[r] = ep[q]

\* C18: when the write of the body fails the handler logs a warning and
\* returns: it has resolved one response and written once, the request is
\* over, and every other request goes on as it would have.
C18_WriteFailure ==
  /\ \A p \in Flows :
       w[p].failed =>
         /\ pc[p] = "done"
         /\ trace[p] = HandlerOrder(resp[p]) \o <<"Warn">>
         /\ ~w[p].wroteBody
  /\ (\E p \in Flows : w[p].failed) => \A q \in Flows : CanGoOn(q)

\* the write of request 1 to the sequenced endpoint failed; request 2 got
\* the next response of the sequence and wrote it
C18_Witness ==
  /\ ep[1] = 3 /\ pc[1] = "done" /\ w[1].failed
  /\ trace[1] = <<"Response", "Sleep", "SetHeaders", "WriteHeader", "Write", "Warn">>
  /\ ep[2] = 3 /\ pc[2] = "done" /\ w[2].wroteBody /\ resp[2] = RespA
  /\ hist[3] = <<0, 1>>

\* C19: once the request is cancelled while its handler waits out the
\* delay, the handler abandons the response: nothing is written for it.
C19_CancelAbandons ==
  \A p \in Flows :
    cancelled[p] =>
      /\ w[p] = NewWriter
      /\ \A i \in 1 .. Len(trace[p]) : trace[p][i] \in {"Response", "Sleep"}

\* C21: for a sequence of one element the loop resolver and the repeatLast
\* resolver cannot be told apart: called side by side, both have returned
\* that one element on every call so far, and both cursors are at 0.
C21_SingleElementSame ==
  (prPc = "built" /\ GoLen(prIn) = 1) =>
    /\ prOut[1] = prOut[2]
    /\ \A k \in 1 .. 2 : \A j \in 1 .. Len(prOut[k]) : prOut[k][j] = At(prIn.elems, 0)
    /\ prIdx = <<0, 0>>

\* both resolvers over a one-element sequence have been called three times
C21_Witness ==
  /\ prPc = "built"
  /\ GoLen(prIn) = 1
  /\ Len(prOut[1]) >= 3
  /\ Len(prOut[2]) >= 3

\* the handler of flow p has panicked in the resolution
Panicked(p) == trace[p] = <<"panic">>

\* the cursor the k-th NextResponse call on sequenced resolver s reads
CursorOfCall(s, k) ==
  IF s.endBehavior = SequenceBehaviorLoop THEN (k - 1) % GoLen(s.sequence)
  ELSE Min(k - 1, GoLen(s.sequence) - 1)

\* every request that has its response has the one its resolver's algorithm
\* gives, and the calls on every sequenced resolver read the cursors its end
\* behavior gives, in order
Prescribed ==
  /\ \A e \in 1 .. Len(endpoints) :
       endpoints[e].responseResolver.kind = "sequenced" =>
         \A k \in 1 .. Len(hist[e]) :
           hist[e][k] = CursorOfCall(endpoints[e].responseResolver, k)
  /\ \A q \in Flows :
       Resolved(q) =>
         LET s == endpoints[ep[q]].responseResolver
         IN  CASE s.kind = "static"    -> resp[q] = s.resp
               [] s.kind = "weighted"  ->
                    \E i \in 1 .. Len(s.responses) : resp[q] = s.responses[i]
               [] s.kind = "sequenced" ->
                    \E k \in 1 .. Len(hist[ep[q]]) :
                      resp[q] = At(s.sequence.elems, hist[ep[q]][k])

\* C22: the step in which a weighted resolution panics changes no cursor,
\* no lock, no endpoint and nothing of any other request, and that
\* request writes nothing; whether or not a request has panicked, every
\* other request that has its response has the one its resolver's
\* algorithm gives.
C22_PanicIsolated ==
  /\ [][\A p \in Flows :
          (Panicked(p)' /\ ~Panicked(p)) =>
            /\ UNCHANGED <<cfg, endpoints, mux, handled, idx, mu, hist>>
            /\ \A q \in Flows \ {p} :
                 UNCHANGED <<pc[q], ep[q], resp[q], trace[q], w[q]>>
            /\ w'[p] = NewWriter]_vars
  /\ []Prescribed

\* one request has panicked in the weighted resolver while another holds
\* the second response of the sequenced resolver
C22_Witness ==
  /\ Panicked(1)
  /\ pc[1] = "done"
  /\ ep[2] = 3
  /\ Resolved(2)
  /\ Len(hist[3]) >= 2
  /\ idx[3] = CursorOfCall(endpoints[3].responseResolver, 3)

\* C23: whatever calls are in progress, waiting for the lock or over, the
\* cursor of every sequenced resolver is an index of its sequence, and so is
\* every cursor a call has read the sequence at.
C23_CursorInRange ==
  \A e \in 1 .. Len(endpoints) :
    LET s == endpoints[e].responseResolver
    IN  s.kind = "sequenced" =>
          /\ 0 <= idx[e] /\ idx[e] < GoLen(s.sequence)
          /\ \A k \in 1 .. Len(hist[e]) :
               0 <= hist[e][k] /\ hist[e][k] < GoLen(s.sequence)

\* the cursor is at the last element for the second time, read by a call that
\* holds the lock while another call waits for it
C23_Witness ==
  /\ cfg.endBehavior = SequenceBehaviorLoop
  /\ idx[3] = GoLen(cfg.sequence) - 1
  /\ Len(hist[3]) > GoLen(cfg.sequence)
  /\ pc[1] = "locked" /\ ep[1] = 3
  /\ pc[2] = "Response" /\ ep[2] = 3

\* the flows whose request went to endpoint e and that are at one of stmts
FlowsAt(e, stmts) == {p \in Flows : ep[p] = e /\ pc[p] \in stmts}

\* how many times stmt is in trace t
Count(t, stmt) == Len(SelectSeq(t, LAMBDA x : x = stmt))

\* C24: the handler of a request calls endpoint.Response() once, as its
\* first statement: the calls a sequenced resolver has seen are the
\* requests handed to its endpoint that are past the call, a request past
\* the call has Response once in its trace, at the head, and nothing is
\* written or waited for before it. So with n requests past the call on a
\* loop resolver of length L the cursor is n mod L, whether those requests
\* are delaying, have written, have failed to write or are over.
C24_ResolvedOnce ==
  /\ \A e \in 1 .. Len(endpoints) :
       LET s == endpoints[e].responseResolver
           n == handled[e] - Cardinality(FlowsAt(e, {"Response", "locked"}))
       IN  s.kind = "sequenced" =>
             /\ Len(hist[e]) = handled[e] - Cardinality(FlowsAt(e, {"Response"}))
             /\ s.endBehavior = SequenceBehaviorLoop => idx[e] = n % GoLen(s.sequence)
  /\ \A p \in Flows :
       /\ pc[p] \in {"Response", "locked"} => (trace[p] = <<>> /\ w[p] = NewWriter)
       /\ Resolved(p) => (trace[p][1] = "Response" /\ Count(trace[p], "Response") = 1)

\* three requests to a loop of two responses are past the call: one failed
\* to write, one is delaying; the cursor is at 1
C24_Witness ==
  /\ cfg.endBehavior = SequenceBehaviorLoop
  /\ GoLen(cfg.sequence) = 2
  /\ handled[3] = 3
  /\ ep[1] = 3 /\ pc[1] = "done" /\ w[1].failed
  /\ ep[2] = 3 /\ pc[2] = "Sleep"
  /\ idx[3] = 1

\* C25: a served request changes no resolver: the responses, cumulative
\* weights, totals, sequences and end behaviors of all the endpoints stay as
\* constructed. The one thing the call changes is the cursor of the resolver
\* it is on, when that one is sequenced: the cursors of all the others stay,
\* and a call on a static or weighted resolver changes no cursor.
C25_OnlyOwnCursor ==
  [][mnLog' # mnLog =>
       LET e == mnLog'[Len(mnLog')].endpoint
           r == mnRes.endpoints.elems[e].responseResolver
       IN  /\ mnRes' = mnRes
           /\ \A x \in DOMAIN mnIdx : x # e => mnIdx'[x] = mnIdx[x]
           /\ r.kind \in {"static", "weighted"} => mnIdx' = mnIdx
           /\ DOMAIN mnIdx' = DOMAIN mnIdx]_vars

\* two sequenced resolvers, both called, with their cursors apart
C25_Witness ==
  /\ mnPc = "serving"
  /\ GoLen(mnRes.endpoints) = 2
  /\ \A e \in 1 .. 2 : mnRes.endpoints.elems[e].responseResolver.kind = "sequenced"
  /\ \A e \in 1 .. 2 : \E k \in 1 .. Len(mnLog) : mnLog[k].endpoint = e
  /\ mnIdx[1] # mnIdx[2]

(***************************************************************************)
(* The server under fair scheduling: a goroutine that can run the second   *)
(* half of NextResponse does run it, and sync.Mutex hands the lock to a    *)
(* goroutine that keeps waiting for it (a waiter that has failed to get    *)
(* the lock for 1ms puts the mutex into starvation mode, where Unlock      *)
(* hands it over to the waiter at the front of the queue).                 *)
(***************************************************************************)
Fairness ==
  \A p \in Flows :
    /\ WF_vars(SequencedUnlock(p))
    /\ SF_vars(SequencedLock(p))

\* the server with the sequenced endpoint alone
SequencedEndpoints(c) ==
  <<NewEndpoint("/sequence", "", NewSequencedResponse(c.endBehavior, c.sequence).res)>>

InitFair ==
  /\ cfg \in ServerConfigs
  /\ endpoints = SequencedEndpoints(cfg)
  /\ mux = RegisterHandlers(endpoints)
  /\ idx = [e \in 1 .. Len(endpoints) |-> NewSequencedResponse(cfg.endBehavior, cfg.sequence).idx]
  /\ mu = [e \in 1 .. Len(endpoints) |-> 0]
  /\ hist = [e \in 1 .. Len(endpoints) |-> <<>>]
  /\ handled = [e \in 1 .. Len(endpoints) |-> 0]
  /\ pc = [p \in Flows |-> "idle"]
  /\ ep = [p \in Flows |-> 0]
  /\ resp = [p \in Flows |-> ZeroResponse]
  /\ trace = [p \in Flows |-> <<>>]
  /\ w = [p \in Flows |-> NewWriter]
  /\ cancelled = [p \in Flows |-> FALSE]
  /\ SqOff /\ WtOff /\ RsOff /\ MnOff /\ PrOff

NextFair ==
  \/ \E p \in Flows : Accept(p)
  \/ \E p \in Flows : SequencedLock(p)
  \/ \E p \in Flows : SequencedUnlock(p)
  \/ \E p \in Flows : Sleep(p)
  \/ \E p \in Flows : Respond(p)
  \/ \E p \in Flows : Return(p)

SpecFair == InitFair /\ [][NextFair]_vars /\ Fairness

\* flow p is in a NextResponse call on a sequenced resolver
Calling(p) ==
  /\ pc[p] \in {"Response", "locked"}
  /\ ep[p] # 0
  /\ endpoints[ep[p]].responseResolver.kind = "sequenced"

\* C26: under fair scheduling a NextResponse call on a sequenced resolver
\* gets the lock and returns a response of the sequence to its handler,
\* whatever the other callers do, and a mutex that is held gets released;
\* a mutex is held only while a call that locked it is in progress.
C26_CallsReturn ==
  /\ \A p \in Flows : Calling(p) ~> (Resolved(p) /\ ~Calling(p))
  /\ (mu[1] # 0) ~> (mu[1] = 0)
  /\ [](\A e \in 1 .. Len(endpoints) : mu[e] = 0 <=> FlowsAt(e, {"locked"}) = {})

\* one call holds the lock and another waits for it
C26_Witness ==
  /\ mu[1] = 1
  /\ pc[1] = "locked" /\ ep[1] = 1
  /\ pc[2] = "Response" /\ ep[2] = 1
  /\ Len(hist[1]) >= 2

\* the responses resolver r holds
ResolverResponses(r) ==
  CASE r.kind = "static"    -> {r.resp}
    [] r.kind = "weighted"  -> {r.responses[i] : i \in 1 .. Len(r.responses)}
    [] r.kind = "sequenced" -> {r.sequence.elems[i] : i \in 1 .. GoLen(r.sequence)}
    [] OTHER                -> {}

\* the responses the strategy of a configured endpoint lists, translated
ConfiguredResponses(endpointCfg) ==
  LET s == endpointCfg.ResponseStrategy
  IN  (IF s.Static.isNil THEN {} ELSE {toRest(s.Static.v).resp})
      \cup {toRest(s.Weighted.elems[i].Response).resp : i \in 1 .. GoLen(s.Weighted)}
      \cup (IF s.Sequence.isNil THEN {}
            ELSE {toRest(s.Sequence.v.Responses.elems[i].Response).resp :
                    i \in 1 .. GoLen(s.Sequence.v.Responses)})

\* C28: every response NewResponse let into a resolver has a status code of
\* 100..599 and a delay that is not negative and is one the configuration
\* lists for that endpoint; every response a handler has written is one its
\* endpoint's resolver holds, so it has such a status code and delay too.
C28_WrittenInRange ==
  /\ ~mnRes.err =>
       \A e \in 1 .. GoLen(mnRes.endpoints) :
         \A x \in ResolverResponses(mnRes.endpoints.elems[e].responseResolver) :
           /\ 100 <= x.statusCode /\ x.statusCode <= 599
           /\ x.delay >= 0
           /\ x \in ConfiguredResponses(CfgEndpoints[e])
  /\ \A k \in 1 .. Len(mnLog) :
       /\ mnLog[k].resp \in
            ResolverResponses(mnRes.endpoints.elems[mnLog[k].endpoint].responseResolver)
       /\ 100 <= mnLog[k].resp.statusCode /\ mnLog[k].resp.statusCode <= 599
       /\ mnLog[k].resp.delay >= 0

\* a configured status code from a sequenced resolver and a defaulted one
\* from a weighted resolver have been written
C28_Witness ==
  /\ Len(mnLog) >= 3
  /\ GoLen(mnRes.endpoints) = 2
  /\ mnRes.endpoints.elems[1].responseResolver.kind = "sequenced"
  /\ mnRes.endpoints.elems[2].responseResolver.kind = "weighted"
  /\ \E j, k \in 1 .. Len(mnLog) :
       /\ mnLog[j].endpoint = 1 /\ mnLog[j].resp.statusCode = 429
       /\ mnLog[k].endpoint = 2 /\ mnLog[k].resp.statusCode = StatusOK

\* C29: a weighted resolver built from n entries holds n cumulative weights,
\* the i-th being the sum of the weights of the entries up to i; they are
\* strictly increasing, the last one is weightTotal, weightTotal is at
\* least n, and the i-th response is the response of entry i.
C29_CumulativeWeights ==
  wtPc = "built" =>
    LET es == wtIn.entries.elems
        n  == Len(es)
        r  == wtRes.res
    IN  /\ Len(r.weights) = n
        /\ Len(r.responses) = n
        /\ \A i \in 1 .. n :
             /\ r.weights[i] = SumWeights(es, i)
             /\ r.responses[i] = es[i].Response
             /\ i > 1 => r.weights[i - 1] < r.weights[i]
        /\ r.weights[n] = r.weightTotal
        /\ r.weightTotal >= n

====
